---- MODULE Spec2Model ----
(***************************************************************************)
(* Model of the weighing-report chat bot: the conversation engine          *)
(* (src/bot/handlers.py), its validators (src/bot/validators.py) and the   *)
(* SQLite store (src/services/database.py).                                *)
(*                                                                         *)
(* A text is a sequence of characters.  A character is a one-letter string *)
(* for ASCII and a name "cy_x" / "CY_X" for a lower / upper case Cyrillic  *)
(* letter (transliterated), so that strip(), lower(), upper() and the      *)
(* regular expressions of the validators are computed and not assumed.     *)
(***************************************************************************)
EXTENDS Integers, Sequences, FiniteSets, TLC

(* ------------------------------ bounds --------------------------------- *)
\* rows the weighings table may hold before new reports stop being confirmed
MaxWeighings == 3
\* seconds the wall clock (CURRENT_TIMESTAMP) may advance
MaxTime == 1
\* store operations (locked database, I/O error) and group deliveries that may
\* fail in one run
MaxFaults == 1
\* messages the server receives in one run, one at a time
MaxMsgs == 5
\* messages a threaded server receives in one run
MaxThreadedMsgs == 3
\* store operations called in a run of SpecTransactions
MaxCalls == 3

(* ----------------------------- characters ------------------------------ *)
\* a validator's None result, and the text of a message that carries no text
None == "None"
NoText == <<"None">>

CasePairs ==
  { <<"a", "A">>, <<"b", "B">>, <<"c", "C">>, <<"e", "E">>, <<"m", "M">>,
    <<"n", "N">>, <<"o", "O">>, <<"s", "S">>, <<"x", "X">>, <<"y", "Y">>,
    <<"cy_a", "CY_A">>, <<"cy_d", "CY_D">>, <<"cy_e", "CY_E">>,
    <<"cy_i", "CY_I">>, <<"cy_m", "CY_M">>, <<"cy_n", "CY_N">>,
    <<"cy_o", "CY_O">>, <<"cy_p", "CY_P">>, <<"cy_r", "CY_R">>,
    <<"cy_s", "CY_S">>, <<"cy_t", "CY_T">>, <<"cy_u", "CY_U">>,
    <<"cy_yu", "CY_YU">>, <<"cy_soft", "CY_SOFT">> }

LatinLower == {"a", "b", "c", "e", "m", "n", "o", "s", "x", "y"}
LatinUpper == {"A", "B", "C", "E", "M", "N", "O", "S", "X", "Y"}
CyrLower == { p[1] : p \in {q \in CasePairs : q[1] \notin LatinLower} }
CyrUpper == { p[2] : p \in {q \in CasePairs : q[1] \notin LatinLower} }
Digits == {"0", "1", "2", "3", "4", "5", "6", "7", "8", "9"}
Whitespace == {" "}

DigitValue(c) ==
  CASE c = "0" -> 0 [] c = "1" -> 1 [] c = "2" -> 2 [] c = "3" -> 3
    [] c = "4" -> 4 [] c = "5" -> 5 [] c = "6" -> 6 [] c = "7" -> 7
    [] c = "8" -> 8 [] c = "9" -> 9

\* str.lower() / str.upper() on one character
LowerChar(c) ==
  IF \E p \in CasePairs : p[2] = c
    THEN (CHOOSE p \in CasePairs : p[2] = c)[1] ELSE c
UpperChar(c) ==
  IF \E p \in CasePairs : p[1] = c
    THEN (CHOOSE p \in CasePairs : p[1] = c)[2] ELSE c

lower(s) == [i \in 1..Len(s) |-> LowerChar(s[i])]
upper(s) == [i \in 1..Len(s) |-> UpperChar(s[i])]

\* str.strip(): drop leading and trailing whitespace
RECURSIVE lstrip(_)
lstrip(s) ==
  IF s # <<>> /\ Head(s) \in Whitespace THEN lstrip(Tail(s)) ELSE s
RECURSIVE rstrip(_)
rstrip(s) ==
  IF s # <<>> /\ s[Len(s)] \in Whitespace
    THEN rstrip(SubSeq(s, 1, Len(s) - 1)) ELSE s
strip(s) == rstrip(lstrip(s))

\* str.replace(old, new) for a one-character old; new is a text
RECURSIVE replace(_, _, _)
replace(s, old, new) ==
  IF s = <<>> THEN <<>>
  ELSE (IF Head(s) = old THEN new ELSE <<Head(s)>>) \o replace(Tail(s), old, new)

\* re.sub(r'\D', '', s): keep the digits
RECURSIVE only_digits(_)
only_digits(s) ==
  IF s = <<>> THEN <<>>
  ELSE (IF Head(s) \in Digits THEN <<Head(s)>> ELSE <<>>) \o only_digits(Tail(s))

\* re.match(r'^[...]+$', s) for a character class
MatchesClass(s, class) == s # <<>> /\ \A i \in 1..Len(s) : s[i] \in class

(* ----------------------------- validators ------------------------------ *)
Valid(v) == [ok |-> TRUE, val |-> v]
Invalid(msg) == [ok |-> FALSE, val |-> msg]

NAME_MIN == 3
NAME_MAX == 100
PHONE_MIN == 10
PHONE_MAX == 15
TRUCK_MIN == 3
TRUCK_MAX == 20

\* Validators.validate_name
validate_name(text) ==
  LET name == strip(text) IN
  IF Len(name) < NAME_MIN THEN Invalid("name_too_short")
  ELSE IF Len(name) > NAME_MAX THEN Invalid("name_too_long")
  ELSE IF ~MatchesClass(name, CyrLower \cup CyrUpper \cup LatinLower
                                \cup LatinUpper \cup Whitespace \cup {"-"})
    THEN Invalid("name_bad_characters")
  ELSE Valid(name)

\* a validate_phone that takes numbers in the international form only: the text
\* has to start with the plus sign, which the value returned does not keep
validate_phone_requiring_plus(text) ==
  LET digits == only_digits(text) IN
  IF text = <<>> \/ Head(text) # "+" THEN Invalid("phone_not_international")
  ELSE IF Len(digits) < PHONE_MIN THEN Invalid("phone_too_short")
  ELSE IF Len(digits) > PHONE_MAX THEN Invalid("phone_too_long")
  ELSE Valid(digits)

\* Validators.validate_phone
validate_phone(text) ==
  LET digits == only_digits(text) IN
  IF Len(digits) < PHONE_MIN THEN Invalid("phone_too_short")
  ELSE IF Len(digits) > PHONE_MAX THEN Invalid("phone_too_long")
  ELSE Valid(digits)

\* Validators.validate_truck
validate_truck(text) ==
  LET truck == upper(strip(text)) IN
  IF Len(truck) < TRUCK_MIN THEN Invalid("truck_too_short")
  ELSE IF Len(truck) > TRUCK_MAX THEN Invalid("truck_too_long")
  ELSE IF ~MatchesClass(truck, CyrUpper \cup LatinUpper \cup Digits
                                 \cup Whitespace \cup {"-"})
    THEN Invalid("truck_bad_characters")
  ELSE Valid(truck)

\* value of a digit string, most significant digit first
RECURSIVE DigitsToInt(_)
DigitsToInt(s) ==
  IF s = <<>> THEN 0
  ELSE 10 * DigitsToInt(SubSeq(s, 1, Len(s) - 1)) + DigitValue(s[Len(s)])

\* float(s) for the decimal literals the model feeds it: an optional sign, digits
\* and an optional fraction of zeros.  Anything else raises ValueError (ok = FALSE).
ParseFloat(s) ==
  LET signed == s # <<>> /\ Head(s) \in {"-", "+"}
      body == IF signed THEN Tail(s) ELSE s
      dot == IF \E i \in 1..Len(body) : body[i] = "."
               THEN CHOOSE i \in 1..Len(body) :
                      body[i] = "." /\ \A j \in 1..(i - 1) : body[j] # "."
               ELSE Len(body) + 1
      int == SubSeq(body, 1, dot - 1)
      frac == SubSeq(body, dot + 1, Len(body))
      wellFormed == /\ int # <<>>
                    /\ \A i \in 1..Len(int) : int[i] \in Digits
                    /\ \A i \in 1..Len(frac) : frac[i] = "0"
  IN IF ~wellFormed THEN [ok |-> FALSE, val |-> 0]
     ELSE [ok |-> TRUE,
           val |-> IF signed /\ Head(s) = "-" THEN 0 - DigitsToInt(int)
                   ELSE DigitsToInt(int)]

\* Validators.validate_weight: (False, None) for a non-number, (False, message)
\* for a negative number, (True, weight) otherwise
validate_weight(text) ==
  LET weight_str == replace(replace(strip(text), ",", <<".">>), " ", <<>>)
      parsed == ParseFloat(weight_str)
  IN IF ~parsed.ok THEN Invalid(None)
     ELSE IF parsed.val < 0 THEN Invalid("weight_negative")
     ELSE Valid(parsed.val)

(* --------------------------- menu commands ----------------------------- *)
MAIN_MENU == <<"0">>
NEW_REPORT == <<"1">>
CHANGE_TRUCK == <<"2">>
RE_REGISTER == <<"3">>
STATISTICS == <<"4">>
MENU_WORD == <<"cy_m", "cy_e", "cy_n", "cy_yu">>
SKIP_PHOTO ==
  <<"cy_p", "cy_r", "cy_o", "cy_p", "cy_u", "cy_s", "cy_t", "cy_i", "cy_t", "cy_soft">>
ConfirmNoTokens == { <<"cy_n", "cy_e", "cy_t">>, <<"n", "o">>, <<"cy_n">> }
ConfirmYesTokens == { <<"cy_d", "cy_a">>, <<"y", "e", "s">>, <<"cy_d">>, <<"y">> }

\* is_exit_command without text.lower(): the comparison a case-sensitive
\* implementation would make
is_exit_command_exact(text) == text \in {MAIN_MENU, MENU_WORD}

\* MenuCommands.is_exit_command
is_exit_command(text) == lower(text) \in {MAIN_MENU, MENU_WORD}

\* Python truthiness of an Optional[str]: None and "" are falsy
Truthy(text) == text # NoText /\ text # <<>>

(* ------------------------------ the store ------------------------------ *)
VARIABLES
  drivers,      \* table drivers: phone -> row
  vehicles,     \* table vehicles: truck_number -> row
  weighings,    \* table weighings: the rows in rowid order
  user_states,  \* table user_states: phone -> row
  now,          \* the wall clock, in seconds (CURRENT_TIMESTAMP)
  threads,      \* the worker threads: locals of process_message and its callees
  faults,       \* store operations that have failed so far
  group,        \* the reports broadcast to the group, in order
  threaded,     \* whether the server handles requests concurrently (app.py:131-136)
  received,     \* messages received so far; in SpecTransactions, store operations called
  write_lock,   \* the thread whose connection holds the write lock of the file, or 0
  calls         \* per thread, the store operation of Database it is inside of

vars == <<drivers, vehicles, weighings, user_states, now, threads, faults, group,
          threaded, received, write_lock, calls>>
\* what the steps of a request leave alone; a store operation of a request is one
\* step of Spec and SpecThreaded, and its statements are the steps of
\* SpecTransactions
env == <<threaded, received, write_lock, calls>>

\* a cursor.fetchone() that found no row
NoRow == [absent |-> TRUE]

\* dict.get(key, default) and d[key] = value on a scratch record
Get(d, k, default) == IF k \in DOMAIN d THEN d[k] ELSE default
Put(d, k, v) == [j \in DOMAIN d \cup {k} |-> IF j = k THEN v ELSE d[j]]

\* json.dumps / json.loads of a scratch record: every value becomes a JSON token
JsonToken(v, k) ==
  CASE k \in {"previous_weight", "current_weight", "weight_difference", "flow"}
         -> <<"number", v>>
    [] k \in {"photo_received"} -> <<"bool", v>>
    [] OTHER -> <<"string", v>>
\* a serialiser that leaves out the fields whose value is empty, zero or false
json_dumps_without_empty(d) ==
  [k \in {j \in DOMAIN d : JsonToken(d[j], j) \notin
                               {<<"number", 0>>, <<"bool", FALSE>>, <<"string", <<>> >>}}
     |-> JsonToken(d[k], k)]
json_dumps(d) == [k \in DOMAIN d |-> JsonToken(d[k], k)]
json_loads(j) == [k \in DOMAIN j |-> j[k][2]]

\* Database.get_driver
get_driver(phone) == IF phone \in DOMAIN drivers THEN drivers[phone] ELSE NoRow

\* Database.get_user_state
get_user_state(phone) ==
  IF phone \in DOMAIN user_states
    THEN [state |-> user_states[phone].state,
          temp_data |-> json_loads(user_states[phone].temp_data)]
    ELSE NoRow

\* a set_user_state that updates the row in place: the fields of the old scratch
\* record that the new one does not name stay
set_user_state_merging(phone, state, temp_data) ==
  [q \in DOMAIN user_states \cup {phone} |->
     IF q = phone
       THEN [state |-> state,
             temp_data |->
               [k \in DOMAIN temp_data
                       \cup (IF phone \in DOMAIN user_states
                               THEN DOMAIN user_states[phone].temp_data ELSE {}) |->
                  IF k \in DOMAIN temp_data THEN json_dumps(temp_data)[k]
                  ELSE user_states[phone].temp_data[k]]]
     ELSE user_states[q]]

\* Database.set_user_state: INSERT OR REPLACE of the user's row
set_user_state(phone, state, temp_data) ==
  [q \in DOMAIN user_states \cup {phone} |->
     IF q = phone THEN [state |-> state, temp_data |-> json_dumps(temp_data)]
     ELSE user_states[q]]

\* a clear_user_state whose DELETE has no WHERE clause: every session goes
clear_user_state_of_everyone(phone) ==
  [q \in {} |-> user_states[q]]

\* Database.clear_user_state: DELETE of the user's row
clear_user_state(phone) ==
  [q \in DOMAIN user_states \ {phone} |-> user_states[q]]

\* INSERT OR REPLACE INTO vehicles: the row of a truck already known is made anew
ensure_vehicle_replacing(truck_number) ==
  [v \in DOMAIN vehicles \cup {truck_number} |->
     IF v # truck_number THEN vehicles[v]
     ELSE [last_weight |-> 0, last_weighing_date |-> <<>>]]

\* INSERT OR IGNORE INTO vehicles (truck_number): last_weight defaults to 0
ensure_vehicle(truck_number) ==
  [v \in DOMAIN vehicles \cup {truck_number} |->
     IF v \in DOMAIN vehicles THEN vehicles[v]
     ELSE [last_weight |-> 0, last_weighing_date |-> <<>>]]

\* Database.register_driver: the drivers table after the upsert
register_driver(phone, full_name, personal_phone, truck_number) ==
  [q \in DOMAIN drivers \cup {phone} |->
     IF q = phone
       THEN [full_name |-> full_name, personal_phone |-> personal_phone,
             truck_number |-> truck_number, is_registered |-> 1]
       ELSE drivers[q]]

\* a truck change written as INSERT OR REPLACE INTO drivers (phone, truck_number):
\* the other columns of the row fall back to their defaults
update_driver_truck_replacing(phone, truck_number) ==
  [q \in DOMAIN drivers \cup {phone} |->
     IF q = phone
       THEN [full_name |-> <<>>, personal_phone |-> <<>>,
             truck_number |-> truck_number, is_registered |-> 0]
       ELSE drivers[q]]

\* Database.update_driver_truck: UPDATE of the row, if there is one
update_driver_truck(phone, truck_number) ==
  [q \in DOMAIN drivers |->
     IF q = phone THEN [drivers[q] EXCEPT !.truck_number = truck_number]
     ELSE drivers[q]]

\* Database.transaction around the statements of register_driver and of
\* update_driver_truck.  fail_at names the statement that raises ("none": the
\* transaction commits and the call returns True); a failure rolls everything back
\* and the call returns False.
DriverFailPoints == {"none", "begin", "select", "drivers", "vehicles", "commit"}

\* register_driver on a connection in autocommit mode: the upsert of the driver
\* stays when a later statement fails
register_driver_autocommit(phone, full_name, personal_phone, truck_number, fail_at) ==
  [success |-> fail_at = "none",
   drivers |-> IF fail_at \in {"begin", "select", "drivers"} THEN drivers
               ELSE register_driver(phone, full_name, personal_phone, truck_number),
   vehicles |-> IF fail_at \in {"begin", "select", "drivers", "vehicles"} THEN vehicles
                ELSE ensure_vehicle(truck_number)]

register_driver_transaction(phone, full_name, personal_phone, truck_number, fail_at) ==
  LET upserted == IF fail_at \in {"begin", "select", "drivers"} THEN drivers
                  ELSE register_driver(phone, full_name, personal_phone, truck_number)
      ensured == IF fail_at \in {"begin", "select", "drivers", "vehicles"} THEN vehicles
                 ELSE ensure_vehicle(truck_number)
  IN IF fail_at = "none"
       THEN [success |-> TRUE, drivers |-> upserted, vehicles |-> ensured]
       ELSE [success |-> FALSE, drivers |-> drivers, vehicles |-> vehicles]

update_driver_truck_transaction(phone, truck_number, fail_at) ==
  LET updated == IF fail_at \in {"begin", "drivers"} THEN drivers
                 ELSE update_driver_truck(phone, truck_number)
      ensured == IF fail_at \in {"begin", "drivers", "vehicles"} THEN vehicles
                 ELSE ensure_vehicle(truck_number)
  IN IF fail_at = "none"
       THEN [success |-> TRUE, drivers |-> updated, vehicles |-> ensured]
       ELSE [success |-> FALSE, drivers |-> drivers, vehicles |-> vehicles]

\* the rows of a truck, as indices into weighings
RowsOf(truck_number) ==
  {i \in 1..Len(weighings) : weighings[i].truck_number = truck_number}

\* Database.get_last_weight: ORDER BY created_at DESC LIMIT 1.  created_at has a
\* resolution of one second and SQL leaves the order of equal keys open, so every
\* row that carries the greatest created_at of the truck is a possible answer.
get_last_weight(truck_number) ==
  IF RowsOf(truck_number) = {} THEN {0}
  ELSE { weighings[i].current_weight :
           i \in { j \in RowsOf(truck_number) :
                     \A k \in RowsOf(truck_number) :
                        weighings[k].created_at <= weighings[j].created_at } }

\* the INSERT of save_weighing with the difference taken the wrong way round
NewWeighing_reversed(data, previous_weight) ==
  [id |-> Len(weighings) + 1,
   driver_phone |-> data.driver_phone,
   truck_number |-> data.truck_number,
   driver_name |-> data.driver_name,
   client_name |-> data.client_name,
   previous_weight |-> previous_weight,
   current_weight |-> data.current_weight,
   weight_difference |-> previous_weight - data.current_weight,
   station_name |-> data.station_name,
   photo_path |-> data.photo_path,
   created_at |-> now,
   flow |-> data.flow]

\* Database.save_weighing: the row INSERTed for data, given the previous weight read
NewWeighing(data, previous_weight) ==
  [id |-> Len(weighings) + 1,
   driver_phone |-> data.driver_phone,
   truck_number |-> data.truck_number,
   driver_name |-> data.driver_name,
   client_name |-> data.client_name,
   previous_weight |-> previous_weight,
   current_weight |-> data.current_weight,
   weight_difference |-> data.current_weight - previous_weight,
   station_name |-> data.station_name,
   photo_path |-> data.photo_path,
   created_at |-> now,
   flow |-> data.flow]

\* UPDATE vehicles SET last_weight = ?, last_weighing_date = CURRENT_TIMESTAMP
update_vehicle(truck_number, current_weight) ==
  [v \in DOMAIN vehicles |->
     IF v = truck_number
       THEN [last_weight |-> current_weight, last_weighing_date |-> <<now>>]
       ELSE vehicles[v]]

\* save_weighing on a connection in autocommit mode: a statement that has run
\* stays when a later one fails
save_weighing_autocommit(data, previous_weight, fail_at) ==
  LET row == [id |-> Len(weighings) + 1,
              driver_phone |-> data.driver_phone,
              truck_number |-> data.truck_number,
              driver_name |-> data.driver_name,
              client_name |-> data.client_name,
              previous_weight |-> previous_weight,
              current_weight |-> data.current_weight,
              weight_difference |-> data.current_weight - previous_weight,
              station_name |-> data.station_name,
              photo_path |-> data.photo_path,
              created_at |-> now,
              flow |-> data.flow]
  IN [result |-> IF fail_at = "none" THEN row ELSE NoRow,
      weighings |-> IF fail_at \in {"begin", "select", "insert"} THEN weighings
                    ELSE Append(weighings, row),
      vehicles |-> IF fail_at \in {"begin", "select", "insert", "update"} THEN vehicles
                   ELSE update_vehicle(data.truck_number, data.current_weight)]

\* save_weighing handing back the row it tried to insert also when the
\* transaction was rolled back
save_weighing_returning_row(data, previous_weight, fail_at) ==
  LET row == [id |-> Len(weighings) + 1,
              driver_phone |-> data.driver_phone,
              truck_number |-> data.truck_number,
              driver_name |-> data.driver_name,
              client_name |-> data.client_name,
              previous_weight |-> previous_weight,
              current_weight |-> data.current_weight,
              weight_difference |-> data.current_weight - previous_weight,
              station_name |-> data.station_name,
              photo_path |-> data.photo_path,
              created_at |-> now,
              flow |-> data.flow]
  IN IF fail_at = "none"
       THEN [result |-> row, weighings |-> Append(weighings, row),
             vehicles |-> update_vehicle(data.truck_number, data.current_weight)]
       ELSE [result |-> row, weighings |-> weighings, vehicles |-> vehicles]

\* save_weighing keeping one row per truck: the truck's newest row is overwritten
save_weighing_one_row_per_truck(data, previous_weight, fail_at) ==
  LET row == NewWeighing(data, previous_weight)
      newest == CHOOSE i \in RowsOf(data.truck_number) :
                  \A k \in RowsOf(data.truck_number) : k <= i
  IN IF fail_at = "none"
       THEN [result |-> row,
             weighings |-> IF RowsOf(data.truck_number) = {}
                             THEN Append(weighings, row)
                             ELSE [weighings EXCEPT ![newest] = [row EXCEPT !.id = newest]],
             vehicles |-> update_vehicle(data.truck_number, data.current_weight)]
       ELSE [result |-> NoRow, weighings |-> weighings, vehicles |-> vehicles]

\* Database.transaction around the statements of save_weighing: BEGIN IMMEDIATE
\* takes the write lock, so the statements run against the committed tables and no
\* other connection sees them before COMMIT.  fail_at names the statement that
\* raises ("none": the transaction commits); a failure rolls everything back and
\* save_weighing returns None.
FailPoints == {"none", "begin", "select", "insert", "update", "commit"}
save_weighing(data, previous_weight, fail_at) ==
  LET row == NewWeighing(data, previous_weight)
      inserted == IF fail_at \in {"begin", "select", "insert"} THEN weighings
                  ELSE Append(weighings, row)
      updated == IF fail_at \in {"begin", "select", "insert", "update"} THEN vehicles
                 ELSE update_vehicle(data.truck_number, data.current_weight)
  IN IF fail_at = "none"
       THEN [result |-> row, weighings |-> inserted, vehicles |-> updated]
       ELSE [result |-> NoRow, weighings |-> weighings, vehicles |-> vehicles]

(* ------------------------------ messages ------------------------------- *)
\* the users, by WhatsApp identity
P1 == <<"7", "1">>
P2 == <<"7", "2">>
Phones == {P1, P2}
\* the request threads of the server
Threads == {1, 2}

TXT_ZERO == <<"0">>
TXT_MENU_UPPER == <<"CY_M", "CY_E", "CY_N", "CY_YU">>
TXT_ANN == <<" ", "A", "n", "n", " ">>
TXT_BO == <<"B", "o">>
TXT_A1X == <<"A", "1", "x">>
TXT_PHONE == <<"+", "7", "9", "0", "0", "1", "2", "3", "4", "5", "6", "7">>
TXT_PHONE_SHORT == <<"1", "2", "3", "4", "5">>
TXT_TRUCK_A == <<" ", "a", "1", "2", "3">>
TXT_TRUCK_B == <<"b", "7", "7", "7">>
TXT_TRUCK_BAD == <<"a", "!", "2", "3">>
TXT_ACME == <<"A", "c", "m", "e", " ">>
TXT_X == <<" ", "x", " ">>
TXT_15000 == <<"1", "5", "0", "0", "0">>
TXT_9000 == <<"9", " ", "0", "0", "0">>
TXT_NEG50 == <<"-", "5", "0">>
TXT_ABC == <<"a", "b", "c">>
TXT_SKIP_CAP ==
  <<"CY_P", "cy_r", "cy_o", "cy_p", "cy_u", "cy_s", "cy_t", "cy_i", "cy_t", "cy_soft">>
TXT_DA_CAP == <<"CY_D", "cy_a">>
TXT_Y == <<"y">>
TXT_NET == <<"cy_n", "cy_e", "cy_t">>

\* what a media message carries: a usable URL, no URL, or a URL whose download fails
MediaKinds == {"url_ok", "no_url", "download_fails"}

\* the tokens every state understands
GlobalTexts == {TXT_ZERO, TXT_MENU_UPPER, RE_REGISTER}

\* the texts a user sends in answer to the prompt of a state
TextsFor(state) ==
  CASE state = "REGISTRATION_NAME" -> {TXT_ANN, TXT_BO, TXT_A1X}
    [] state = "REGISTRATION_PHONE" -> {TXT_PHONE, TXT_PHONE_SHORT}
    [] state = "REGISTRATION_TRUCK" -> {TXT_TRUCK_A, TXT_TRUCK_B, TXT_TRUCK_BAD}
    [] state = "AWAITING_CLIENT" -> {TXT_ACME, TXT_X, <<>>}
    [] state = "AWAITING_WEIGHT" -> {TXT_15000, TXT_9000, TXT_NEG50, TXT_ABC}
    [] state = "AWAITING_PHOTO" -> {TXT_SKIP_CAP, TXT_ABC}
    [] state = "AWAITING_CONFIRMATION" -> {TXT_DA_CAP, TXT_Y, TXT_NET, TXT_ABC}
    [] state = "CHANGING_TRUCK" -> {TXT_TRUCK_B, TXT_TRUCK_BAD}
    [] OTHER -> {NEW_REPORT, CHANGE_TRUCK, STATISTICS, TXT_DA_CAP}

States == {"REGISTRATION_NAME", "REGISTRATION_PHONE", "REGISTRATION_TRUCK",
           "AWAITING_CLIENT", "AWAITING_WEIGHT", "AWAITING_PHOTO",
           "AWAITING_CONFIRMATION", "CHANGING_TRUCK", "AWAITING_STATS_PERIOD"}

StoredState(phone) ==
  IF phone \in DOMAIN user_states THEN user_states[phone].state ELSE "none"

(* ------------------------------- threads ------------------------------- *)
\* pc is the place of the thread in process_message: "idle" (no request),
\* "get_user_state", "route", the name of the store call a handler goes on with,
\* and "done" (the reply is returned, the webhook has not sent it yet); handler is
\* the branch process_message takes for the message, delivery what became of the
\* broadcast of the request
IdleThread ==
  [pc |-> "idle", phone |-> <<>>, text |-> NoText, has_media |-> FALSE,
   media_data |-> "none", driver |-> NoRow, state_data |-> NoRow,
   temp_data |-> << >>, next_state |-> "none", handler |-> "none",
   reply |-> <<>>, rejected |-> FALSE, delivery |-> "none"]

\* The database when a run starts: one of the states a deployment reaches from an
\* empty database, with no request in flight.
\*   registered_one: P1 has registered with truck A123.
\*   mid_flows:      P1 has then answered the client and weight prompts of a new
\*                   report; P2 has answered the name and phone prompts of the
\*                   registration.
\*   confirming:     P2 has registered with the same truck, and both have answered
\*                   all prompts of a new report and are asked to confirm it.
AnnRow ==
  [full_name |-> strip(TXT_ANN), personal_phone |-> only_digits(TXT_PHONE),
   truck_number |-> upper(strip(TXT_TRUCK_A)), is_registered |-> 1]
ScratchForPhoto(text, flow) ==
  [truck_number |-> AnnRow.truck_number, driver_name |-> AnnRow.full_name,
   driver_phone |-> AnnRow.personal_phone, previous_weight |-> 0,
   client_name |-> strip(TXT_ACME), current_weight |-> validate_weight(text).val,
   weight_difference |-> validate_weight(text).val, flow |-> flow]
ScratchToConfirm(text, flow) ==
  Put(Put(ScratchForPhoto(text, flow), "photo_received", FALSE), "photo_path", <<>>)
Session(state, temp_data) == [state |-> state, temp_data |-> json_dumps(temp_data)]
Snapshots ==
  { [drivers |-> [q \in {P1} |-> AnnRow], user_states |-> << >>],
    [drivers |-> [q \in {P1} |-> AnnRow],
     user_states |->
       [q \in Phones |->
          IF q = P1 THEN Session("AWAITING_PHOTO", ScratchForPhoto(TXT_15000, 1))
          ELSE Session("REGISTRATION_TRUCK",
                       [full_name |-> strip(TXT_ANN),
                        personal_phone |-> only_digits(TXT_PHONE)])]],
    [drivers |-> [q \in Phones |-> AnnRow],
     user_states |->
       [q \in Phones |->
          IF q = P1 THEN Session("AWAITING_CONFIRMATION", ScratchToConfirm(TXT_15000, 1))
          ELSE Session("AWAITING_CONFIRMATION", ScratchToConfirm(TXT_9000, 2))]] }

\* a thread that is in no store operation: the last operation, if any, has
\* returned with result
IdleCall ==
  [op |-> "none", phone |-> <<>>, pc |-> "idle", todo |-> <<>>,
   previous_weight |-> 0, result |-> "none"]

InitFrom(snap) ==
  /\ drivers = snap.drivers
  /\ user_states = snap.user_states
  /\ vehicles = [v \in {AnnRow.truck_number} |->
                   [last_weight |-> 0, last_weighing_date |-> <<>>]]
  /\ weighings = <<>>
  /\ now = 0
  /\ threads = [t \in Threads |-> IdleThread]
  /\ faults = 0
  /\ group = <<>>
  /\ received = 0
  /\ write_lock = 0
  /\ calls = [t \in Threads |-> IdleCall]

\* a server that handles one request at a time
Init == threaded = FALSE /\ \E snap \in Snapshots : InitFrom(snap)
\* the Flask server of app.py, started with threaded=True
InitThreaded == threaded = TRUE /\ \E snap \in Snapshots : InitFrom(snap)

(* --------------------------- process_message --------------------------- *)
\* whether a store operation may fail now, and the fault count after it
Outcomes == IF faults < MaxFaults THEN {TRUE, FALSE} ELSE {TRUE}
Count(ok) == IF ok THEN faults ELSE faults + 1

\* thread t goes on with the locals rec
Continue(t, rec) == threads' = [threads EXCEPT ![t] = rec]
\* thread t returns reply from process_message; rejected tells that the handler
\* refused the input.  The locals are dropped; the reply and the branch taken stay
\* until the webhook has answered, and with them the message when it was refused.
Return(t, reply, rejected) ==
  Continue(t, [IdleThread EXCEPT
                 !.pc = "done", !.phone = threads[t].phone,
                 !.handler = threads[t].handler,
                 !.text = IF rejected THEN threads[t].text ELSE NoText,
                 !.has_media = rejected /\ threads[t].has_media,
                 !.media_data = IF rejected THEN threads[t].media_data ELSE "none",
                 !.reply = reply, !.rejected = rejected,
                 !.delivery = threads[t].delivery])
\* str(e) of the DatabaseError a failed read raises: the text of the sqlite3 error
DatabaseErrorText == "DatabaseError"
\* Messages.error_occurred: the apology and the menu hint around the error text
error_occurred(error) == <<"error_occurred", error>>
\* Messages.error_occurred(str(e)), the answer of process_message's except clause
ErrorOccurred == error_occurred(DatabaseErrorText)

\* is_registered = driver and driver.get('is_registered', 0) == 1
IsRegistered(driver) == driver # NoRow /\ driver.is_registered = 1

\* the weighings table has room for the rows the confirmations in flight may add
CanCommit ==
  Len(weighings)
    + Cardinality({t \in Threads : /\ threads[t].pc \notin {"idle", "done"}
                                   /\ lower(threads[t].text) \in ConfirmYesTokens})
    < MaxWeighings

\* app.py:30-56 and handlers.py:42: the webhook hands a message of a user to
\* process_message, which reads the driver.  The message is an answer to the prompt
\* of the session the user sees, a global token, or a media message (what the
\* media carries matters to the photo prompt only).  A server that is not threaded
\* takes the next request when the last one has returned; thread 2 serves a
\* request that arrives while thread 1 is busy.
Messages ==
  { [phone |-> phone, text |-> text, has_media |-> FALSE, media_data |-> "none"] :
      phone \in Phones, text \in UNION {TextsFor(st) : st \in States \cup {"none"}}
                                   \cup GlobalTexts }
  \cup { [phone |-> phone, text |-> NoText, has_media |-> TRUE, media_data |-> m] :
           phone \in Phones, m \in MediaKinds }
process_message(t) ==
  /\ threads[t].pc = "idle"
  /\ threaded \/ \A u \in Threads : threads[u].pc = "idle"
  /\ t = 1 \/ threads[1].pc # "idle"
  /\ received < (IF threaded THEN MaxThreadedMsgs ELSE MaxMsgs)
  /\ received' = received + 1
  /\ \E msg \in Messages :
       /\ IF msg.has_media
            THEN StoredState(msg.phone) = "AWAITING_PHOTO" \/ msg.media_data = "url_ok"
            ELSE msg.text \in TextsFor(StoredState(msg.phone)) \cup GlobalTexts
       /\ lower(msg.text) \in ConfirmYesTokens => CanCommit
       /\ \E ok \in Outcomes :
            /\ faults' = Count(ok)
            /\ Continue(t, [IdleThread EXCEPT
                  !.pc = IF ok THEN "get_user_state" ELSE "done",
                  !.phone = msg.phone, !.text = msg.text,
                  !.has_media = msg.has_media, !.media_data = msg.media_data,
                  !.driver = IF ok THEN get_driver(msg.phone) ELSE NoRow,
                  !.reply = IF ok THEN <<>> ELSE ErrorOccurred])
  /\ UNCHANGED <<drivers, vehicles, weighings, user_states, now, group, threaded,
                 write_lock, calls>>

StateHandlers ==
  [REGISTRATION_NAME |-> "handle_registration_name",
   REGISTRATION_PHONE |-> "handle_registration_phone",
   REGISTRATION_TRUCK |-> "handle_registration_truck",
   AWAITING_CLIENT |-> "handle_client_name",
   AWAITING_WEIGHT |-> "handle_weight_input",
   AWAITING_PHOTO |-> "handle_photo_input",
   AWAITING_CONFIRMATION |-> "handle_confirmation",
   CHANGING_TRUCK |-> "handle_change_truck"]

\* BotHandlers.handle_unregistered_user: the registration handler of the stored
\* state, and start_registration for no session or any other state
handle_unregistered_user(state_data) ==
  IF state_data = NoRow THEN "start_registration"
  ELSE IF state_data.state = "REGISTRATION_NAME" THEN "handle_registration_name"
  ELSE IF state_data.state = "REGISTRATION_PHONE" THEN "handle_registration_phone"
  ELSE IF state_data.state = "REGISTRATION_TRUCK" THEN "handle_registration_truck"
  ELSE "start_registration"

\* process_message with the re-register command looked at after the session of a
\* registered user instead of before it
Route_session_first(text, has_media, driver, state_data) ==
  IF Truthy(text) /\ is_exit_command(text) THEN "exit"
  ELSE IF ~IsRegistered(driver)
    THEN (IF text = RE_REGISTER THEN "re_register"
          ELSE handle_unregistered_user(state_data))
  ELSE IF state_data # NoRow /\ state_data.state = "AWAITING_PHOTO" /\ has_media
    THEN "handle_photo_received"
  ELSE IF state_data # NoRow /\ state_data.state \in DOMAIN StateHandlers
    THEN StateHandlers[state_data.state]
  ELSE IF text = RE_REGISTER THEN "re_register"
  ELSE IF text = NEW_REPORT THEN "start_new_report"
  ELSE IF text = CHANGE_TRUCK THEN "menu_change_truck"
  ELSE "show_main_menu"

\* process_message with the change-truck selection looked at before the
\* registration of the user
Route_menu_first(text, has_media, driver, state_data) ==
  IF Truthy(text) /\ is_exit_command(text) THEN "exit"
  ELSE IF text = RE_REGISTER THEN "re_register"
  ELSE IF state_data = NoRow /\ text = CHANGE_TRUCK THEN "menu_change_truck"
  ELSE IF ~IsRegistered(driver) THEN handle_unregistered_user(state_data)
  ELSE IF state_data # NoRow /\ state_data.state = "AWAITING_PHOTO" /\ has_media
    THEN "handle_photo_received"
  ELSE IF state_data # NoRow /\ state_data.state \in DOMAIN StateHandlers
    THEN StateHandlers[state_data.state]
  ELSE IF text = NEW_REPORT THEN "start_new_report"
  ELSE "show_main_menu"

\* process_message with the session of a registered user looked at first: the
\* exit and re-register commands are understood at the main menu only
Route_state_first(text, has_media, driver, state_data) ==
  IF IsRegistered(driver) /\ state_data # NoRow
       /\ state_data.state = "AWAITING_PHOTO" /\ has_media
    THEN "handle_photo_received"
  ELSE IF IsRegistered(driver) /\ state_data # NoRow
            /\ state_data.state \in DOMAIN StateHandlers
    THEN StateHandlers[state_data.state]
  ELSE IF Truthy(text) /\ is_exit_command(text) THEN "exit"
  ELSE IF text = RE_REGISTER THEN "re_register"
  ELSE IF ~IsRegistered(driver) THEN handle_unregistered_user(state_data)
  ELSE IF text = NEW_REPORT THEN "start_new_report"
  ELSE IF text = CHANGE_TRUCK THEN "menu_change_truck"
  ELSE "show_main_menu"

\* handlers.py:81-89  the message read as a selection of the main menu
menu_command(text) ==
  IF text = NEW_REPORT THEN "start_new_report"
  ELSE IF text = CHANGE_TRUCK THEN "menu_change_truck"
  ELSE "show_main_menu"

\* a process_message without the except branch: a session whose state has no
\* handler is left as it is and the message read as a menu selection
Route_keeping_foreign_session(text, has_media, driver, state_data) ==
  IF Truthy(text) /\ is_exit_command(text) THEN "exit"
  ELSE IF text = RE_REGISTER THEN "re_register"
  ELSE IF ~IsRegistered(driver) THEN handle_unregistered_user(state_data)
  ELSE IF state_data # NoRow /\ state_data.state = "AWAITING_PHOTO" /\ has_media
    THEN "handle_photo_received"
  ELSE IF state_data # NoRow /\ state_data.state \in DOMAIN StateHandlers
    THEN StateHandlers[state_data.state]
  ELSE menu_command(text)

\* the branch process_message takes after its two reads (handlers.py:48-89);
\* UserState[state_name] raises KeyError for a name that is no member
\* ("invalid_state")
Route(text, has_media, driver, state_data) ==
  IF Truthy(text) /\ is_exit_command(text) THEN "exit"
  ELSE IF text = RE_REGISTER THEN "re_register"
  ELSE IF ~IsRegistered(driver) THEN handle_unregistered_user(state_data)
  ELSE IF state_data # NoRow /\ state_data.state \notin States THEN "invalid_state"
  ELSE IF state_data # NoRow /\ state_data.state = "AWAITING_PHOTO" /\ has_media
    THEN "handle_photo_received"
  ELSE IF state_data # NoRow /\ state_data.state \in DOMAIN StateHandlers
    THEN StateHandlers[state_data.state]
  ELSE menu_command(text)

\* handlers.py:46  state_data = self.db.get_user_state(phone); with both reads done
\* the branch is fixed
GetUserState(t) ==
  /\ threads[t].pc = "get_user_state"
  /\ \E ok \in Outcomes :
       /\ faults' = Count(ok)
       /\ IF ok
            THEN Continue(t, [threads[t] EXCEPT !.pc = "route",
                                !.state_data = get_user_state(threads[t].phone),
                                !.temp_data =
                                   IF threads[t].phone \in DOMAIN user_states
                                     THEN get_user_state(threads[t].phone).temp_data
                                     ELSE << >>,
                                !.handler =
                                   Route(threads[t].text, threads[t].has_media,
                                         threads[t].driver,
                                         get_user_state(threads[t].phone))])
            ELSE Return(t, ErrorOccurred, FALSE)
  /\ UNCHANGED <<drivers, vehicles, weighings, user_states, now, group, env>>

At(t, handler) == threads[t].pc = "route" /\ threads[t].handler = handler

(* ------------------------------- handlers ------------------------------ *)
\* What a handler does with an input: the reply it returns and the store call it
\* makes on the way.
\*   Prompt:     no store call; the input is refused (rejected) and the user
\*               asked again
\*   SetState:   set_user_state(phone, state, temp_data), then the reply
\*   ClearState: clear_user_state(phone), then the reply
\*   Register:   register_driver; on success clear_user_state and reply, else failed
\*   NewTruck:   update_driver_truck; on success clear_user_state and reply
\*   Save:       save_weighing; on success the broadcast, clear_user_state and reply
Prompt(reply) == [op |-> "none", reply |-> reply, rejected |-> TRUE]
SetState(state, temp_data, reply) ==
  [op |-> "set_user_state", state |-> state, temp_data |-> temp_data, reply |-> reply,
   rejected |-> FALSE]
ClearState(reply) == [op |-> "clear_user_state", reply |-> reply, rejected |-> FALSE]
Register(full_name, personal_phone, truck_number, reply, failed) ==
  [op |-> "register_driver", full_name |-> full_name,
   personal_phone |-> personal_phone, truck_number |-> truck_number,
   reply |-> reply, failed |-> failed, rejected |-> FALSE]
NewTruck(truck_number, reply, failed) ==
  [op |-> "update_driver_truck", truck_number |-> truck_number, reply |-> reply,
   failed |-> failed, rejected |-> FALSE]
Save(data, reply, failed) ==
  [op |-> "save_weighing", data |-> data, reply |-> reply, failed |-> failed,
   rejected |-> FALSE]
\* the handler raises KeyError before any store call: temp_data['truck_number'] or
\* temp_data['current_weight'] of a scratch record without that key
KeyError == [op |-> "KeyError", reply |-> <<>>, rejected |-> FALSE]

\* BotHandlers.show_main_menu
show_main_menu(driver) ==
  ClearState(IF ~(driver # NoRow /\ driver.is_registered # 0)
               THEN <<"main_menu_unregistered">>
               ELSE <<"main_menu_registered", driver.full_name, driver.truck_number>>)

\* BotHandlers.start_registration
start_registration == SetState("REGISTRATION_NAME", << >>, <<"REGISTRATION_START">>)

\* handle_registration_name saving the driver at once, with what is known so far
handle_registration_name_saving(text, temp_data) ==
  IF ~Truthy(text) THEN Prompt(<<"please_enter_name">>)
  ELSE IF ~validate_name(text).ok THEN Prompt(<<validate_name(text).val>>)
  ELSE Register(validate_name(text).val, Get(temp_data, "personal_phone", <<>>),
                Get(temp_data, "truck_number", <<>>),
                <<"registration_name_success", validate_name(text).val>>,
                <<"registration_failed">>)

\* BotHandlers.handle_registration_name
handle_registration_name(text, temp_data) ==
  IF ~Truthy(text) THEN Prompt(<<"please_enter_name">>)
  ELSE IF ~validate_name(text).ok THEN Prompt(<<validate_name(text).val>>)
  ELSE SetState("REGISTRATION_PHONE",
                Put(temp_data, "full_name", validate_name(text).val),
                <<"registration_name_success", validate_name(text).val>>)

\* BotHandlers.handle_registration_phone
handle_registration_phone(text, temp_data) ==
  IF ~Truthy(text) THEN Prompt(<<"please_enter_phone">>)
  ELSE IF ~validate_phone(text).ok THEN Prompt(<<validate_phone(text).val>>)
  ELSE SetState("REGISTRATION_TRUCK",
                Put(temp_data, "personal_phone", validate_phone(text).val),
                <<"registration_phone_success">>)

\* handle_registration_truck registering the text as typed instead of the value
\* validate_truck returns
handle_registration_truck_as_typed(text, temp_data) ==
  IF ~Truthy(text) THEN Prompt(<<"please_enter_truck">>)
  ELSE IF ~validate_truck(text).ok THEN Prompt(<<validate_truck(text).val>>)
  ELSE Register(Get(temp_data, "full_name", <<>>),
                Get(temp_data, "personal_phone", <<>>), text,
                <<"registration_complete", Get(temp_data, "full_name", <<>>),
                  Get(temp_data, "personal_phone", <<>>), text>>,
                <<"registration_failed">>)

\* handle_registration_truck looking for the name under a key the name step does
\* not write
handle_registration_truck_other_key(text, temp_data) ==
  IF ~Truthy(text) THEN Prompt(<<"please_enter_truck">>)
  ELSE IF ~validate_truck(text).ok THEN Prompt(<<validate_truck(text).val>>)
  ELSE Register(Get(temp_data, "name", <<>>),
                Get(temp_data, "personal_phone", <<>>), validate_truck(text).val,
                <<"registration_complete", Get(temp_data, "name", <<>>),
                  Get(temp_data, "personal_phone", <<>>), validate_truck(text).val>>,
                <<"registration_failed">>)

\* BotHandlers.handle_registration_truck
handle_registration_truck(text, temp_data) ==
  IF ~Truthy(text) THEN Prompt(<<"please_enter_truck">>)
  ELSE IF ~validate_truck(text).ok THEN Prompt(<<validate_truck(text).val>>)
  ELSE Register(Get(temp_data, "full_name", <<>>),
                Get(temp_data, "personal_phone", <<>>), validate_truck(text).val,
                <<"registration_complete", Get(temp_data, "full_name", <<>>),
                  Get(temp_data, "personal_phone", <<>>), validate_truck(text).val>>,
                <<"registration_failed">>)

\* handlers.py:84-86  menu selection 2: a CHANGING_TRUCK session without scratch data
menu_change_truck == SetState("CHANGING_TRUCK", << >>, <<"enter_new_truck">>)

\* handle_client_name starting the scratch record anew with the client
handle_client_name_fresh_record(text, temp_data) ==
  IF ~Truthy(text) \/ Len(strip(text)) < 2 THEN Prompt(<<"please_enter_client">>)
  ELSE SetState("AWAITING_WEIGHT", [client_name |-> strip(text)], <<"enter_weight">>)

\* BotHandlers.handle_client_name
handle_client_name(text, temp_data) ==
  IF ~Truthy(text) \/ Len(strip(text)) < 2 THEN Prompt(<<"please_enter_client">>)
  ELSE SetState("AWAITING_WEIGHT", Put(temp_data, "client_name", strip(text)),
                <<"enter_weight">>)

\* handle_weight_input storing the number before it looks at its sign
handle_weight_input_store_first(text, temp_data) ==
  IF ~Truthy(text) THEN Prompt(<<"enter_weight">>)
  ELSE IF ~validate_weight(text).ok /\ validate_weight(text).val = None
    THEN Prompt(<<"invalid_number">>)
  ELSE [SetState("AWAITING_PHOTO",
                 Put(temp_data, "current_weight", ParseFloat(
                       replace(replace(strip(text), ",", <<".">>), " ", <<>>)).val),
                 IF validate_weight(text).ok THEN <<"enter_photo">>
                 ELSE <<validate_weight(text).val>>)
          EXCEPT !.rejected = ~validate_weight(text).ok]

\* handle_weight_input answering every refused weight with the same message
handle_weight_input_one_message(text, temp_data) ==
  IF ~Truthy(text) THEN Prompt(<<"enter_weight">>)
  ELSE IF ~validate_weight(text).ok THEN Prompt(<<"invalid_number">>)
  ELSE SetState("AWAITING_PHOTO",
                Put(Put(temp_data, "current_weight", validate_weight(text).val),
                    "weight_difference",
                    validate_weight(text).val - Get(temp_data, "previous_weight", 0)),
                <<"enter_photo">>)

\* handle_weight_input asking for the confirmation at once, as if the photo had
\* been skipped
handle_weight_input_skipping_photo(text, temp_data) ==
  IF ~Truthy(text) THEN Prompt(<<"enter_weight">>)
  ELSE IF ~validate_weight(text).ok
    THEN Prompt(IF validate_weight(text).val = None THEN <<"invalid_number">>
                ELSE <<validate_weight(text).val>>)
  ELSE SetState("AWAITING_CONFIRMATION",
                Put(Put(temp_data, "current_weight", validate_weight(text).val),
                    "weight_difference",
                    validate_weight(text).val - Get(temp_data, "previous_weight", 0)),
                <<"enter_photo">>)

\* BotHandlers.handle_weight_input
handle_weight_input(text, temp_data) ==
  IF ~Truthy(text) THEN Prompt(<<"enter_weight">>)
  ELSE IF ~validate_weight(text).ok
    THEN Prompt(IF validate_weight(text).val = None THEN <<"invalid_number">>
                ELSE <<validate_weight(text).val>>)
  ELSE SetState("AWAITING_PHOTO",
                Put(Put(temp_data, "current_weight", validate_weight(text).val),
                    "weight_difference",
                    validate_weight(text).val - Get(temp_data, "previous_weight", 0)),
                <<"enter_photo">>)

\* Messages.confirmation_report: the fields of the scratch record it prints (the
\* date line is left out)
confirmation_report(data) ==
  <<"confirmation_report",
    Get(data, "driver_phone", <<"?">>), Get(data, "truck_number", <<"?">>),
    Get(data, "client_name", <<"?">>), Get(data, "current_weight", 0),
    Get(data, "previous_weight", 0), Get(data, "weight_difference", 0)>>

\* handle_photo_input comparing the text as it was typed
handle_photo_input_exact(text, temp_data) ==
  IF Truthy(text) /\ text = SKIP_PHOTO
    THEN SetState("AWAITING_CONFIRMATION",
                  Put(Put(temp_data, "photo_received", FALSE), "photo_path", <<>>),
                  confirmation_report(Put(Put(temp_data, "photo_received", FALSE),
                                          "photo_path", <<>>)))
    ELSE Prompt(<<"enter_photo">>)

\* BotHandlers.handle_photo_input: the skip token, or the prompt again
handle_photo_input(text, temp_data) ==
  IF Truthy(text) /\ lower(text) = SKIP_PHOTO
    THEN SetState("AWAITING_CONFIRMATION",
                  Put(Put(temp_data, "photo_received", FALSE), "photo_path", <<>>),
                  confirmation_report(Put(Put(temp_data, "photo_received", FALSE),
                                          "photo_path", <<>>)))
    ELSE Prompt(<<"enter_photo">>)

\* BotHandlers.handle_photo_received: the download is the photo service's; what
\* it returns is fixed by the media the message carries
PHOTO_URL == <<"url">>
PHOTO_FILE == <<"file">>
\* handle_photo_received noting the photo in the session before the download
handle_photo_received_marking_first(temp_data, media_data) ==
  IF media_data # "url_ok" /\ media_data # "download_fails"
    THEN Prompt(<<"photo_not_received">>)
  ELSE IF media_data = "download_fails"
    THEN [SetState("AWAITING_PHOTO", Put(temp_data, "photo_url", PHOTO_URL),
                   <<"download_error">>) EXCEPT !.rejected = TRUE]
  ELSE SetState("AWAITING_CONFIRMATION",
                Put(Put(Put(temp_data, "photo_received", TRUE),
                        "photo_path", PHOTO_FILE), "photo_url", PHOTO_URL),
                confirmation_report(Put(Put(Put(temp_data, "photo_received", TRUE),
                                            "photo_path", PHOTO_FILE),
                                        "photo_url", PHOTO_URL)))
handle_photo_received(temp_data, media_data) ==
  IF media_data # "url_ok" /\ media_data # "download_fails"
    THEN Prompt(<<"photo_not_received">>)
  ELSE IF media_data = "download_fails" THEN Prompt(<<"download_error">>)
  ELSE SetState("AWAITING_CONFIRMATION",
                Put(Put(Put(temp_data, "photo_received", TRUE),
                        "photo_path", PHOTO_FILE), "photo_url", PHOTO_URL),
                confirmation_report(Put(Put(Put(temp_data, "photo_received", TRUE),
                                            "photo_path", PHOTO_FILE),
                                        "photo_url", PHOTO_URL)))

\* handle_confirmation taking every text that is not a negative token for an
\* affirmative one
handle_confirmation_default_yes(phone, text, temp_data) ==
  IF ~Truthy(text) THEN Prompt(<<"please_confirm">>)
  ELSE IF lower(text) \in ConfirmNoTokens THEN ClearState(<<"report_cancelled">>)
  ELSE Save([driver_phone |-> phone,
             truck_number |-> temp_data["truck_number"],
             driver_name |-> Get(temp_data, "driver_name", <<>>),
             client_name |-> Get(temp_data, "client_name", <<>>),
             current_weight |-> temp_data["current_weight"],
             photo_path |-> Get(temp_data, "photo_path", <<>>),
             station_name |-> <<>>,
             flow |-> temp_data["flow"]],
            <<"report_saved">>, <<"save_failed">>)

\* handle_confirmation taking the whole words for an affirmative answer and asking
\* again after a single letter
handle_confirmation_words_only(phone, text, temp_data) ==
  IF ~Truthy(text) THEN Prompt(<<"please_confirm">>)
  ELSE IF lower(text) \in ConfirmNoTokens THEN ClearState(<<"report_cancelled">>)
  ELSE IF lower(text) \notin {<<"cy_d", "cy_a">>, <<"y", "e", "s">>}
    THEN Prompt(<<"please_confirm">>)
  ELSE Save([driver_phone |-> phone,
             truck_number |-> temp_data["truck_number"],
             driver_name |-> Get(temp_data, "driver_name", <<>>),
             client_name |-> Get(temp_data, "client_name", <<>>),
             current_weight |-> temp_data["current_weight"],
             photo_path |-> Get(temp_data, "photo_path", <<>>),
             station_name |-> <<>>,
             flow |-> temp_data["flow"]],
            <<"report_saved">>, <<"save_failed">>)

\* BotHandlers.handle_confirmation: the row it hands to save_weighing (with the
\* number of the flow), the cancellation, or the prompt again
handle_confirmation(phone, text, temp_data) ==
  IF ~Truthy(text) THEN Prompt(<<"please_confirm">>)
  ELSE IF lower(text) \in ConfirmNoTokens THEN ClearState(<<"report_cancelled">>)
  ELSE IF lower(text) \notin ConfirmYesTokens THEN Prompt(<<"please_confirm">>)
  ELSE IF ~({"truck_number", "current_weight"} \subseteq DOMAIN temp_data)
    THEN KeyError
  ELSE Save([driver_phone |-> phone,
             truck_number |-> temp_data["truck_number"],
             driver_name |-> Get(temp_data, "driver_name", <<>>),
             client_name |-> Get(temp_data, "client_name", <<>>),
             current_weight |-> temp_data["current_weight"],
             photo_path |-> Get(temp_data, "photo_path", <<>>),
             station_name |-> <<>>,
             flow |-> temp_data["flow"]],
            <<"report_saved">>, <<"save_failed">>)

\* BotHandlers.handle_change_truck
handle_change_truck(text, temp_data) ==
  IF ~Truthy(text) THEN Prompt(<<"enter_new_truck">>)
  ELSE IF ~validate_truck(text).ok THEN Prompt(<<validate_truck(text).val>>)
  ELSE NewTruck(validate_truck(text).val,
                <<"truck_updated", validate_truck(text).val>>,
                <<"truck_update_failed">>)

\* BotHandlers.start_new_report, given what get_last_weight returned and the
\* number of the flow that starts
start_new_report(phone, driver, previous_weight, flow) ==
  IF driver.truck_number = <<>> THEN Prompt(<<"truck_not_set">>)
  ELSE SetState("AWAITING_CLIENT",
                [truck_number |-> driver.truck_number,
                 driver_name |-> driver.full_name,
                 driver_phone |-> driver.personal_phone,
                 previous_weight |-> previous_weight,
                 flow |-> flow],
                <<"enter_client">>)

(* ------------------------ the steps of a request ----------------------- *)
\* the handler's store call and what follows it at once: the reply, or the next
\* store call of the handler
Apply(t, d) ==
  LET th == threads[t] IN
  \/ /\ d.op = "none"
     /\ Return(t, d.reply, d.rejected)
     /\ UNCHANGED <<drivers, vehicles, weighings, user_states, faults>>
  \/ /\ d.op = "set_user_state"
     /\ \E ok \in Outcomes :
          /\ faults' = Count(ok)
          /\ user_states' = IF ok THEN set_user_state(th.phone, d.state, d.temp_data)
                            ELSE user_states
     /\ Return(t, d.reply, d.rejected)
     /\ UNCHANGED <<drivers, vehicles, weighings>>
  \/ /\ d.op = "clear_user_state"
     /\ \E ok \in Outcomes :
          /\ faults' = Count(ok)
          /\ user_states' = IF ok THEN clear_user_state(th.phone) ELSE user_states
     /\ Return(t, d.reply, d.rejected)
     /\ UNCHANGED <<drivers, vehicles, weighings>>
  \/ /\ d.op = "register_driver"
     /\ \E fail_at \in IF faults < MaxFaults THEN DriverFailPoints ELSE {"none"} :
          LET done == register_driver_transaction(th.phone, d.full_name,
                                                  d.personal_phone, d.truck_number,
                                                  fail_at)
          IN /\ faults' = Count(fail_at = "none")
             /\ drivers' = done.drivers
             /\ vehicles' = done.vehicles
             /\ IF done.success
                  THEN Continue(t, [th EXCEPT !.pc = "clear_user_state",
                                              !.reply = d.reply])
                  ELSE Return(t, d.failed, FALSE)
     /\ UNCHANGED <<weighings, user_states>>
  \/ /\ d.op = "update_driver_truck"
     /\ \E fail_at \in IF faults < MaxFaults THEN DriverFailPoints \ {"select"}
                        ELSE {"none"} :
          LET done == update_driver_truck_transaction(th.phone, d.truck_number, fail_at)
          IN /\ faults' = Count(fail_at = "none")
             /\ drivers' = done.drivers
             /\ vehicles' = done.vehicles
             /\ IF done.success
                  THEN Continue(t, [th EXCEPT !.pc = "clear_user_state",
                                              !.reply = d.reply])
                  ELSE Return(t, d.failed, FALSE)
     /\ UNCHANGED <<weighings, user_states>>
  \/ /\ d.op = "save_weighing"
     /\ \E fail_at \in IF faults < MaxFaults THEN FailPoints ELSE {"none"} :
          \E previous_weight \in get_last_weight(d.data.truck_number) :
            LET saved == save_weighing(d.data, previous_weight, fail_at)
            IN /\ faults' = Count(fail_at = "none")
               /\ weighings' = saved.weighings
               /\ vehicles' = saved.vehicles
               /\ IF saved.result # NoRow
                    THEN Continue(t, [th EXCEPT !.pc = "send_report_to_group",
                                                !.reply = d.reply])
                    ELSE Return(t, d.failed, FALSE)
     /\ UNCHANGED <<drivers, user_states>>

\* handlers.py:49-50  an exit command: the main menu
Exit(t) ==
  /\ At(t, "exit")
  /\ Apply(t, show_main_menu(threads[t].driver))
  /\ UNCHANGED <<now, group, env>>

\* handlers.py:89  no session, no menu selection: the main menu
ShowMainMenu(t) ==
  /\ At(t, "show_main_menu")
  /\ Apply(t, show_main_menu(threads[t].driver))
  /\ UNCHANGED <<now, group, env>>

\* handlers.py:53-54  the re-register command clears the session first
ReRegister(t) ==
  /\ At(t, "re_register")
  /\ \E ok \in Outcomes :
       /\ faults' = Count(ok)
       /\ user_states' = IF ok THEN clear_user_state(threads[t].phone)
                         ELSE user_states
  /\ Continue(t, [threads[t] EXCEPT !.pc = "start_registration"])
  /\ UNCHANGED <<drivers, vehicles, weighings, now, group, env>>

\* start_registration, called for the re-register command (handlers.py:55) or
\* for a user who is not registered and has no registration session
StartRegistration(t) ==
  /\ threads[t].pc = "start_registration" \/ At(t, "start_registration")
  /\ Apply(t, start_registration)
  /\ UNCHANGED <<now, group, env>>

HandleRegistrationName(t) ==
  /\ At(t, "handle_registration_name")
  /\ Apply(t, handle_registration_name(threads[t].text, threads[t].temp_data))
  /\ UNCHANGED <<now, group, env>>

HandleRegistrationPhone(t) ==
  /\ At(t, "handle_registration_phone")
  /\ Apply(t, handle_registration_phone(threads[t].text, threads[t].temp_data))
  /\ UNCHANGED <<now, group, env>>

HandleRegistrationTruck(t) ==
  /\ At(t, "handle_registration_truck")
  /\ Apply(t, handle_registration_truck(threads[t].text, threads[t].temp_data))
  /\ UNCHANGED <<now, group, env>>

\* the clear_user_state that ends a handler, and the reply that follows it
ClearUserState(t) ==
  /\ threads[t].pc = "clear_user_state"
  /\ \E ok \in Outcomes :
       /\ faults' = Count(ok)
       /\ user_states' = IF ok THEN clear_user_state(threads[t].phone)
                         ELSE user_states
  /\ Return(t, threads[t].reply, FALSE)
  /\ UNCHANGED <<drivers, vehicles, weighings, now, group, env>>

\* history: the report flows in progress or committed.  A flow is one run of
\* start_new_report; its number travels with the scratch record and is copied into
\* the row committed from it.  A new flow takes the least number not in use.
FlowsInUse ==
  { user_states[q].temp_data["flow"][2] :
      q \in {r \in DOMAIN user_states : "flow" \in DOMAIN user_states[r].temp_data} }
  \cup { threads[t].temp_data["flow"] :
           t \in {u \in Threads : "flow" \in DOMAIN threads[u].temp_data} }
  \cup { weighings[i].flow : i \in 1..Len(weighings) }
FreshFlow == CHOOSE n \in 1..(Cardinality(FlowsInUse) + 1) :
               n \notin FlowsInUse /\ \A m \in 1..(n - 1) : m \in FlowsInUse

\* handlers.py:83 and start_new_report up to the return of get_last_weight
StartNewReport(t) ==
  /\ At(t, "start_new_report")
  /\ LET th == threads[t] IN
     IF th.driver.truck_number = <<>>
       THEN /\ Return(t, start_new_report(th.phone, th.driver, 0, 0).reply, TRUE)
            /\ UNCHANGED faults
       ELSE \E ok \in Outcomes :
              /\ faults' = Count(ok)
              /\ IF ok
                   THEN \E previous_weight \in get_last_weight(th.driver.truck_number) :
                          LET d == start_new_report(th.phone, th.driver,
                                                    previous_weight, FreshFlow)
                          IN Continue(t, [th EXCEPT !.pc = "set_user_state",
                                            !.next_state = d.state,
                                            !.temp_data = d.temp_data,
                                            !.reply = d.reply])
                   ELSE Return(t, ErrorOccurred, FALSE)
  /\ UNCHANGED <<drivers, vehicles, weighings, user_states, now, group, env>>

\* the set_user_state that ends start_new_report, and the reply that follows it
SetUserState(t) ==
  /\ threads[t].pc = "set_user_state"
  /\ Apply(t, SetState(threads[t].next_state, threads[t].temp_data, threads[t].reply))
  /\ UNCHANGED <<now, group, env>>

MenuChangeTruck(t) ==
  /\ At(t, "menu_change_truck")
  /\ Apply(t, menu_change_truck)
  /\ UNCHANGED <<now, group, env>>

HandleClientName(t) ==
  /\ At(t, "handle_client_name")
  /\ Apply(t, handle_client_name(threads[t].text, threads[t].temp_data))
  /\ UNCHANGED <<now, group, env>>

HandleWeightInput(t) ==
  /\ At(t, "handle_weight_input")
  /\ Apply(t, handle_weight_input(threads[t].text, threads[t].temp_data))
  /\ UNCHANGED <<now, group, env>>

HandlePhotoInput(t) ==
  /\ At(t, "handle_photo_input")
  /\ Apply(t, handle_photo_input(threads[t].text, threads[t].temp_data))
  /\ UNCHANGED <<now, group, env>>

HandlePhotoReceived(t) ==
  /\ At(t, "handle_photo_received")
  /\ Apply(t, handle_photo_received(threads[t].temp_data, threads[t].media_data))
  /\ UNCHANGED <<now, group, env>>

\* handle_confirmation up to the return of its first store call
HandleConfirmation(t) ==
  /\ At(t, "handle_confirmation")
  /\ Apply(t, handle_confirmation(threads[t].phone, threads[t].text,
                                  threads[t].temp_data))
  /\ UNCHANGED <<now, group, env>>

\* BotHandlers.send_report_to_group: the text made from the scratch record
report_text(temp_data) ==
  [driver_name |-> upper(Get(temp_data, "driver_name", <<>>)),
   driver_phone |-> Get(temp_data, "driver_phone", <<>>),
   truck_number |-> Get(temp_data, "truck_number", <<>>),
   client_name |-> Get(temp_data, "client_name", <<>>),
   current_weight |-> Get(temp_data, "current_weight", 0),
   previous_weight |-> Get(temp_data, "previous_weight", 0),
   weight_difference |-> Get(temp_data, "weight_difference", 0),
   with_photo |-> "photo_url" \in DOMAIN temp_data
                    /\ Get(temp_data, "photo_received", FALSE),
   flow |-> temp_data["flow"]]
\* what becomes of a broadcast: the WhatsApp client delivers it ("sent"), the
\* client returns False after a failed request ("failed"), or GROUP_ID is empty
\* and nothing is handed to the client ("no_group"; GROUP_ID is read at each call,
\* and the server of app.py does not start without it)
Deliveries == {"sent", "failed", "no_group"}
\* send_report_to_group raising when the report was not delivered: the request
\* ends with the error reply
send_report_to_group_raising(t) ==
  /\ threads[t].pc = "send_report_to_group"
  /\ \E delivery \in IF faults < MaxFaults THEN Deliveries ELSE {"sent"} :
       /\ faults' = Count(delivery = "sent")
       /\ IF delivery = "sent"
            THEN Continue(t, [threads[t] EXCEPT !.pc = "clear_user_state",
                                                !.delivery = delivery])
            ELSE Continue(t, [IdleThread EXCEPT
                                !.pc = "done", !.phone = threads[t].phone,
                                !.handler = threads[t].handler,
                                !.reply = ErrorOccurred, !.delivery = delivery])
  /\ group' = Append(group, report_text(threads[t].temp_data))
  /\ UNCHANGED <<drivers, vehicles, weighings, user_states, now, env>>

\* the call of send_report_to_group in handle_confirmation: group gets the report
\* the handler asked to broadcast, and neither function reads what became of it
send_report_to_group(t) ==
  /\ threads[t].pc = "send_report_to_group"
  /\ \E delivery \in IF faults < MaxFaults THEN Deliveries ELSE {"sent"} :
       /\ faults' = Count(delivery = "sent")
       /\ Continue(t, [threads[t] EXCEPT !.pc = "clear_user_state",
                                           !.delivery = delivery])
  /\ group' = Append(group, report_text(threads[t].temp_data))
  /\ UNCHANGED <<drivers, vehicles, weighings, user_states, now, env>>

HandleChangeTruck(t) ==
  /\ At(t, "handle_change_truck")
  /\ Apply(t, handle_change_truck(threads[t].text, threads[t].temp_data))
  /\ UNCHANGED <<now, group, env>>

(* ----------------------------- environment ----------------------------- *)
\* app.py:59-66  the webhook sends the reply and the request ends
Respond(t) ==
  /\ threads[t].pc = "done"
  /\ Continue(t, IdleThread)
  /\ UNCHANGED <<drivers, vehicles, weighings, user_states, now, faults, group, env>>

\* the process dies: every request in flight is lost, the database file stays
Crash ==
  /\ \E t \in Threads : threads[t].pc \notin {"idle", "done"}
  /\ threads' = [t \in Threads |-> IdleThread]
  /\ UNCHANGED <<drivers, vehicles, weighings, user_states, now, faults, group, env>>

\* a second passes.  The clock is read for created_at and last_weighing_date only,
\* and only the order of those stamps is used, so the seconds that matter are the
\* ones that separate the last commit from the next.
Tick ==
  /\ now < MaxTime
  /\ weighings # <<>> /\ weighings[Len(weighings)].created_at = now
  /\ now' = now + 1
  /\ UNCHANGED <<drivers, vehicles, weighings, user_states, threads, faults, group, env>>

\* handlers.py:77-79  except KeyError, raised by UserState[state_name] or by the
\* handler before its first store call: the session is cleared (the result of
\* clear_user_state is not looked at) and the same message goes on to the menu
\* commands of handlers.py:81-89
ExceptKeyError(t) ==
  /\ \/ At(t, "invalid_state")
     \/ /\ At(t, "handle_confirmation")
        /\ handle_confirmation(threads[t].phone, threads[t].text,
                               threads[t].temp_data).op = "KeyError"
  /\ \E ok \in Outcomes :
       /\ faults' = Count(ok)
       /\ user_states' = IF ok THEN clear_user_state(threads[t].phone)
                         ELSE user_states
  /\ Continue(t, [threads[t] EXCEPT !.handler = menu_command(threads[t].text)])
  /\ UNCHANGED <<drivers, vehicles, weighings, now, group, env>>

Step(t) ==
  \/ process_message(t)
  \/ GetUserState(t)
  \/ Exit(t)
  \/ ShowMainMenu(t)
  \/ ReRegister(t)
  \/ StartRegistration(t)
  \/ HandleRegistrationName(t)
  \/ HandleRegistrationPhone(t)
  \/ HandleRegistrationTruck(t)
  \/ StartNewReport(t)
  \/ SetUserState(t)
  \/ MenuChangeTruck(t)
  \/ HandleClientName(t)
  \/ HandleWeightInput(t)
  \/ HandlePhotoInput(t)
  \/ HandlePhotoReceived(t)
  \/ HandleConfirmation(t)
  \/ send_report_to_group(t)
  \/ HandleChangeTruck(t)
  \/ ClearUserState(t)
  \/ Respond(t)

Next == (\E t \in Threads : Step(t)) \/ Crash \/ Tick

Spec == Init /\ [][Next]_vars

\* the same program behind the threaded development server (app.py:131-136)
SpecThreaded == InitThreaded /\ [][Next]_vars

\* The program started on a database file that holds sessions this release did not
\* write.  user_states outlives a release, its state column is free text and its
\* temp_data column any JSON (database.py, init_db); the sessions the handlers of
\* this release write never have a state name outside UserState nor a scratch
\* record without truck_number or current_weight, so the except branch of
\* handlers.py:77-79 is taken for such rows only.
\*   foreign_state:  P1's session names a state that is no member of UserState;
\*                   P2's asks for the confirmation of a scratch record that has
\*                   no truck_number.
\*   short_scratch:  P1's session waits for the photo with a scratch record that
\*                   has no current_weight.
FOREIGN_STATE == "AWAITING_DESTINATION"
ScratchWithout(key, flow) ==
  LET whole == ScratchToConfirm(TXT_9000, flow)
  IN [k \in DOMAIN whole \ {key} |-> whole[k]]
ForeignSnapshots ==
  { [drivers |-> [q \in Phones |-> AnnRow],
     user_states |->
       [q \in Phones |->
          IF q = P1 THEN Session(FOREIGN_STATE, << >>)
          ELSE Session("AWAITING_CONFIRMATION", ScratchWithout("truck_number", 2))]],
    [drivers |-> [q \in {P1} |-> AnnRow],
     user_states |->
       [q \in {P1} |->
          Session("AWAITING_PHOTO", ScratchWithout("current_weight", 1))]] }

InitRecovery == threaded = FALSE /\ \E snap \in ForeignSnapshots : InitFrom(snap)

\* the steps of Next and the except branch, which no state of Spec or SpecThreaded
\* enables
NextRecovery == Next \/ \E t \in Threads : ExceptKeyError(t)

SpecRecovery == InitRecovery /\ [][NextRecovery]_vars

(* -------------------- the store under concurrent writes ---------------- *)
\* Spec and SpecThreaded take a store operation as one step.  SpecTransactions
\* takes the write operations of Database apart into the statements they execute
\* on the connection of their thread: BEGIN IMMEDIATE, the statements of the
\* operation, commit or rollback (database.py:60-71).  The threads call the
\* operations in any order and with any interleaving of their statements;
\* the handlers call them one after the other and never from inside a
\* transaction, which is opened in database.py only.

\* a get_last_weight that wraps its SELECT in a transaction of its own
get_last_weight_in_transaction == <<"begin", "select_last_weight", "commit">>
\* database.py:225-235  get_last_weight executes one SELECT on the connection of
\* the thread, with no BEGIN
get_last_weight_statements == <<"select_last_weight">>

\* the statements a write operation executes inside `with self.transaction()`
Statements(op) ==
  CASE op = "register_driver" -> <<"select", "drivers", "vehicles">>
    [] op = "update_driver_truck" -> <<"drivers", "vehicles">>
    [] op = "save_weighing" ->
         get_last_weight_statements \o <<"insert", "update", "select">>
    [] op = "set_user_state" -> <<"replace">>
    [] op = "clear_user_state" -> <<"delete">>

\* the row handle_confirmation hands to save_weighing for each user
ConfirmedData ==
  [phone \in Phones |->
     handle_confirmation(phone, TXT_Y, ScratchToConfirm(TXT_15000, 1)).data]

\* the tables after the commit of call c, with the arguments the handlers pass:
\* a re-registration with truck B, a change to truck B, the row of an affirmative
\* confirmation, the session of the change-truck selection, the end of a session
Written(c) ==
  LET truck_b == validate_truck(TXT_TRUCK_B).val
      data == ConfirmedData[c.phone]
      registered == register_driver_transaction(c.phone, AnnRow.full_name,
                                                AnnRow.personal_phone, truck_b, "none")
      updated == update_driver_truck_transaction(c.phone, truck_b, "none")
      saved == save_weighing(data, c.previous_weight, "none")
  IN [drivers |-> CASE c.op = "register_driver" -> registered.drivers
                    [] c.op = "update_driver_truck" -> updated.drivers
                    [] OTHER -> drivers,
      vehicles |-> CASE c.op = "register_driver" -> registered.vehicles
                     [] c.op = "update_driver_truck" -> updated.vehicles
                     [] c.op = "save_weighing" -> saved.vehicles
                     [] OTHER -> vehicles,
      weighings |-> IF c.op = "save_weighing" THEN saved.weighings ELSE weighings,
      user_states |-> CASE c.op = "set_user_state" ->
                             set_user_state(c.phone, "CHANGING_TRUCK", << >>)
                        [] c.op = "clear_user_state" -> clear_user_state(c.phone)
                        [] OTHER -> user_states]

\* a thread enters a write operation: `with self.transaction() as conn`
Call(t) ==
  /\ calls[t].pc = "idle"
  /\ received < MaxCalls
  /\ received' = received + 1
  /\ \E op \in {"register_driver", "update_driver_truck", "save_weighing",
                 "set_user_state", "clear_user_state"}, phone \in Phones :
       /\ op = "save_weighing"
            => Len(weighings)
                 + Cardinality({u \in Threads : calls[u].op = "save_weighing"
                                                 /\ calls[u].pc # "idle"})
                 < MaxWeighings
       /\ op = "update_driver_truck" => phone \in DOMAIN drivers
       /\ calls' = [calls EXCEPT ![t] =
                      [IdleCall EXCEPT !.op = op, !.phone = phone, !.pc = "begin",
                                       !.todo = Statements(op)]]
  /\ UNCHANGED <<drivers, vehicles, weighings, user_states, now, threads, faults,
                 group, threaded, write_lock>>

\* database.py:65  conn.execute("BEGIN IMMEDIATE"): the connection takes the write
\* lock of the file when no other connection holds it; when one does, sqlite
\* waits for at most timeout=30 seconds (database.py:49) and raises
\* "database is locked"
BeginImmediate(t) ==
  /\ calls[t].pc = "begin"
  /\ IF write_lock = 0
       THEN \E ok \in Outcomes :
              /\ faults' = Count(ok)
              /\ write_lock' = IF ok THEN t ELSE 0
              /\ calls' = [calls EXCEPT ![t].pc = IF ok THEN "execute" ELSE "rollback"]
       ELSE /\ calls' = [calls EXCEPT ![t].pc = "rollback"]
            /\ UNCHANGED <<write_lock, faults>>
  /\ UNCHANGED <<drivers, vehicles, weighings, user_states, now, threads, group,
                 threaded, received>>

\* the next statement of the operation, on the connection that holds the lock.
\* It may raise; a BEGIN inside the transaction of the connection always does
\* ("cannot start a transaction within a transaction").  What the statements
\* write is seen by the other connections at the commit.
Execute(t) ==
  /\ calls[t].pc = "execute"
  /\ LET c == calls[t]
         statement == Head(c.todo)
         rest == Tail(c.todo)
     IN IF statement = "begin"
          THEN /\ calls' = [calls EXCEPT ![t].pc = "rollback"]
               /\ UNCHANGED faults
          ELSE \E ok \in Outcomes :
                 /\ faults' = Count(ok)
                 /\ IF ~ok
                      THEN calls' = [calls EXCEPT ![t].pc = "rollback"]
                      ELSE \E previous_weight \in
                               IF statement = "select_last_weight"
                                 THEN get_last_weight(AnnRow.truck_number)
                                 ELSE {c.previous_weight} :
                             calls' = [calls EXCEPT ![t] =
                                         [c EXCEPT !.todo = rest,
                                                   !.previous_weight = previous_weight,
                                                   !.pc = IF rest = <<>> THEN "commit"
                                                          ELSE "execute"]]
  /\ UNCHANGED <<drivers, vehicles, weighings, user_states, now, threads, group,
                 threaded, received, write_lock>>

\* database.py:67  conn.commit(): the writes reach the file and the lock is
\* released, or the commit raises
Commit(t) ==
  /\ calls[t].pc = "commit"
  /\ \E ok \in Outcomes :
       /\ faults' = Count(ok)
       /\ IF ok
            THEN /\ \E written \in {Written(calls[t])} :
                      /\ drivers' = written.drivers
                      /\ vehicles' = written.vehicles
                      /\ weighings' = written.weighings
                      /\ user_states' = written.user_states
                 /\ write_lock' = 0
                 /\ calls' = [calls EXCEPT ![t] =
                                [IdleCall EXCEPT !.result = "committed"]]
            ELSE /\ calls' = [calls EXCEPT ![t].pc = "rollback"]
                 /\ UNCHANGED <<drivers, vehicles, weighings, user_states, write_lock>>
  /\ UNCHANGED <<now, threads, group, threaded, received>>

\* database.py:68-71  except: conn.rollback() and DatabaseError, which the
\* operation answers with False or None: the lock is released if the connection
\* holds it, and nothing is written
Rollback(t) ==
  /\ calls[t].pc = "rollback"
  /\ write_lock' = IF write_lock = t THEN 0 ELSE write_lock
  /\ calls' = [calls EXCEPT ![t] = [IdleCall EXCEPT !.result = "rolled_back"]]
  /\ UNCHANGED <<drivers, vehicles, weighings, user_states, now, threads, faults,
                 group, threaded, received>>

\* a step of the thread inside a store operation
StoreStep(t) == BeginImmediate(t) \/ Execute(t) \/ Commit(t) \/ Rollback(t)

InitTransactions == threaded = TRUE /\ \E snap \in Snapshots : InitFrom(snap)

NextTransactions == \E t \in Threads : Call(t) \/ StoreStep(t)

\* a thread inside a store operation is not suspended for ever
SpecTransactions ==
  InitTransactions /\ [][NextTransactions]_vars
    /\ \A t \in Threads : WF_vars(StoreStep(t))

(* ======================= properties of the program ===================== *)
\* indices of the rows committed for a flow, and for the truck of row i before i
RowsOfFlow(flow) == {i \in 1..Len(weighings) : weighings[i].flow = flow}
Prior(i) == {j \in 1..(i - 1) : weighings[j].truck_number = weighings[i].truck_number}
Last(S) == CHOOSE j \in S : \A k \in S : k <= j
\* the current_weight of the row committed last before row i for its truck, or 0
CommittedBefore(i) ==
  IF Prior(i) = {} THEN 0 ELSE weighings[Last(Prior(i))].current_weight

\* thread t has committed the row of its confirmation and not yet returned
Committed(t) ==
  /\ threads[t].pc \in {"send_report_to_group", "clear_user_state"}
  /\ threads[t].reply = <<"report_saved">>
\* this step is the handler step of thread t: from the branch point to the reply or
\* to the handler's next store call
Handled(t) == threads[t].pc = "route" /\ threads'[t].pc \notin {"route", "idle"}
\* this step is thread t's store call at pc
Called(t, pc) == threads[t].pc = pc /\ threads'[t].pc \notin {pc, "idle"}
\* no store operation and no delivery fails in this step
NoFault == faults' = faults

\* C1: when two threads have both read the same AWAITING_CONFIRMATION session of a
\* user and both have committed on the affirmative token, the table holds exactly
\* one row of that flow.
C1_ConcurrentConfirmationsCommitOnce ==
  \A t \in Threads : \A u \in Threads \ {t} :
    (/\ Committed(t) /\ Committed(u)
     /\ threads[t].phone = threads[u].phone
     /\ threads[t].state_data = threads[u].state_data)
    => Cardinality(RowsOfFlow(threads[t].temp_data["flow"])) = 1

\* C2: every committed row has weight_difference = current_weight - previous_weight,
\* and its previous_weight is the current_weight of the row committed last before
\* it for the same truck, or 0 when there is none.
C2_DifferenceFromLastCommitted ==
  \A i \in 1..Len(weighings) :
    /\ weighings[i].previous_weight = CommittedBefore(i)
    /\ weighings[i].weight_difference = weighings[i].current_weight - CommittedBefore(i)

\* C3: the rows of a truck that several users report on form a chain in commit
\* order: each previous_weight is the current_weight of the row committed
\* immediately before for that truck, 0 for the first, whatever previous weight the
\* scratch records held.
C3_ChainInCommitOrder ==
  \A i \in 1..Len(weighings) :
    (\E j \in 1..Len(weighings) :
        /\ weighings[j].truck_number = weighings[i].truck_number
        /\ weighings[j].driver_phone # weighings[i].driver_phone)
    => weighings[i].previous_weight = CommittedBefore(i)

\* C4: for every truck with rows, Vehicle.last_weight is the current_weight of the
\* row committed last for it; and a save_weighing that fails leaves the weighings
\* and the vehicles tables as they were.
LastWeightIsLastCommitted ==
  \A i \in 1..Len(weighings) :
    (\A j \in (i + 1)..Len(weighings) :
        weighings[j].truck_number # weighings[i].truck_number)
    => /\ weighings[i].truck_number \in DOMAIN vehicles
       /\ vehicles[weighings[i].truck_number].last_weight = weighings[i].current_weight
FailedSaveChangesNothing ==
  \A t \in Threads :
    (Handled(t) /\ threads[t].handler = "handle_confirmation"
       /\ threads'[t].reply = <<"save_failed">>)
    => weighings' = weighings /\ vehicles' = vehicles
C4_LastWeightAndAtomicSave ==
  []LastWeightIsLastCommitted /\ [][FailedSaveChangesNothing]_vars
\* a save has failed after two rows of different weights were committed for a truck
C4_Witness ==
  /\ \E t \in Threads : threads[t].pc = "done" /\ threads[t].reply = <<"save_failed">>
  /\ \E i, j \in 1..Len(weighings) :
       /\ i < j
       /\ weighings[i].truck_number = weighings[j].truck_number
       /\ weighings[i].current_weight # weighings[j].current_weight

\* C5: a flow never has a second row, also when the process stops or the session
\* clear fails after the commit and the user sends the affirmative token again.
C5_NoSecondRowAfterStop ==
  \A i, j \in 1..Len(weighings) : weighings[i].flow = weighings[j].flow => i = j

\* the tokens process_message looks for before anything else
GlobalToken(text) == Truthy(text) /\ (is_exit_command(text) \/ text = RE_REGISTER)

\* thread t answers the prompt of the registration state it read, for a user who is
\* not registered, and no store operation fails
RegistrationAnswer(t) ==
  /\ Handled(t) /\ NoFault
  /\ ~IsRegistered(threads[t].driver)
  /\ threads[t].state_data # NoRow
  /\ Truthy(threads[t].text)
\* a valid answer is stored in normalized form and the registration moves on; the
\* valid truck id completes the driver row from the two values stored before
RegistrationAdvances(t) ==
  LET th == threads[t] IN
  /\ (th.state_data.state = "REGISTRATION_NAME" /\ validate_name(th.text).ok)
     => user_states' = set_user_state(th.phone, "REGISTRATION_PHONE",
                                      Put(th.temp_data, "full_name", strip(th.text)))
  /\ (th.state_data.state = "REGISTRATION_PHONE" /\ validate_phone(th.text).ok)
     => user_states' = set_user_state(th.phone, "REGISTRATION_TRUCK",
                                      Put(th.temp_data, "personal_phone",
                                          only_digits(th.text)))
  /\ (th.state_data.state = "REGISTRATION_TRUCK" /\ validate_truck(th.text).ok)
     => /\ th.phone \in DOMAIN drivers'
        /\ drivers'[th.phone] =
             [full_name |-> Get(th.temp_data, "full_name", <<>>),
              personal_phone |-> Get(th.temp_data, "personal_phone", <<>>),
              truck_number |-> upper(strip(th.text)),
              is_registered |-> 1]
        /\ threads'[t].pc = "clear_user_state"
\* the session clear that follows the registration deletes the session
RegistrationEndsSession ==
  \A t \in Threads :
    (Called(t, "clear_user_state") /\ NoFault
       /\ threads[t].handler = "handle_registration_truck")
    => threads[t].phone \notin DOMAIN user_states'

StateHandlerAnswer(phone, text, has_media, media_data) ==
  LET state_data == get_user_state(phone)
      temp_data == IF state_data = NoRow THEN << >> ELSE state_data.temp_data
      handler == Route(text, has_media, get_driver(phone), state_data)
  IN CASE handler = "handle_registration_name" -> handle_registration_name(text, temp_data)
       [] handler = "handle_registration_phone" -> handle_registration_phone(text, temp_data)
       [] handler = "handle_registration_truck" -> handle_registration_truck(text, temp_data)
       [] handler = "handle_client_name" -> handle_client_name(text, temp_data)
       [] handler = "handle_weight_input" -> handle_weight_input(text, temp_data)
       [] handler = "handle_photo_input" -> handle_photo_input(text, temp_data)
       [] handler = "handle_photo_received" -> handle_photo_received(temp_data, media_data)
       [] handler = "handle_confirmation" -> handle_confirmation(phone, text, temp_data)
       [] handler = "handle_change_truck" -> handle_change_truck(text, temp_data)
       [] OTHER -> [rejected |-> FALSE, reply |-> <<>>]

\* C7: an input the handler of the session state refuses changes neither the
\* session nor the drivers, vehicles and weighings tables, and the same input sent
\* again is refused with the same reply.
RefusalChangesNothing ==
  \A t \in Threads :
    (Handled(t) /\ threads'[t].pc = "done" /\ threads'[t].rejected)
    => UNCHANGED <<user_states, drivers, vehicles, weighings>>
RefusedAgainTheSame ==
  \A t \in Threads :
    (threads[t].pc = "done" /\ threads[t].rejected)
    => LET again == StateHandlerAnswer(threads[t].phone, threads[t].text,
                                       threads[t].has_media, threads[t].media_data)
       IN again.rejected /\ again.reply = threads[t].reply
C7_RefusedInputChangesNothing ==
  []RefusedAgainTheSame /\ [][RefusalChangesNothing]_vars
\* a negative weight has been refused and the session still waits for the weight
C7_Witness ==
  \E t \in Threads :
    /\ threads[t].pc = "done" /\ threads[t].rejected
    /\ threads[t].text = TXT_NEG50
    /\ threads[t].reply = <<"weight_negative">>
    /\ StoredState(threads[t].phone) = "AWAITING_WEIGHT"

\* C8: an exit token ("0" or the menu word in any letter case) in any state deletes
\* the session and returns the main menu without running a state handler, and
\* leaves the drivers, vehicles and weighings tables as they were.
ExitTexts == {TXT_ZERO, MENU_WORD, TXT_MENU_UPPER}
ReportAnswer(t, state) ==
  /\ Handled(t) /\ NoFault
  /\ IsRegistered(threads[t].driver)
  /\ threads[t].state_data # NoRow /\ threads[t].state_data.state = state
  /\ Truthy(threads[t].text)
\* the steps of a report: the new-report selection opens a flow for the driver's
\* truck, the valid client name, the valid weight w and the skip token are stored,
\* the affirmative token commits one row, which for a truck without rows carries
\* previous_weight 0, current_weight w and weight_difference w and sets the
\* vehicle's last_weight to w, and the session clear that follows deletes the session
ReportStep(t) ==
  LET th == threads[t]
      w == validate_weight(th.text).val
  IN
  /\ (Handled(t) /\ NoFault /\ IsRegistered(th.driver) /\ th.state_data = NoRow
        /\ th.text = NEW_REPORT)
     => /\ threads'[t].pc = "set_user_state"
        /\ threads'[t].next_state = "AWAITING_CLIENT"
        /\ threads'[t].temp_data["truck_number"] = th.driver.truck_number
  /\ (Called(t, "set_user_state") /\ NoFault)
     => user_states' = set_user_state(th.phone, th.next_state, th.temp_data)
  /\ (ReportAnswer(t, "AWAITING_CLIENT") /\ Len(strip(th.text)) >= 2)
     => user_states' = set_user_state(th.phone, "AWAITING_WEIGHT",
                                      Put(th.temp_data, "client_name", strip(th.text)))
  /\ (ReportAnswer(t, "AWAITING_WEIGHT") /\ validate_weight(th.text).ok)
     => user_states' =
          set_user_state(th.phone, "AWAITING_PHOTO",
                         Put(Put(th.temp_data, "current_weight", w), "weight_difference",
                             w - Get(th.temp_data, "previous_weight", 0)))
  /\ (ReportAnswer(t, "AWAITING_PHOTO") /\ lower(th.text) = SKIP_PHOTO)
     => user_states' =
          set_user_state(th.phone, "AWAITING_CONFIRMATION",
                         Put(Put(th.temp_data, "photo_received", FALSE),
                             "photo_path", <<>>))
  /\ (ReportAnswer(t, "AWAITING_CONFIRMATION") /\ lower(th.text) \in ConfirmYesTokens
        /\ RowsOf(th.temp_data["truck_number"]) = {})
     => /\ Len(weighings') = Len(weighings) + 1
        /\ SubSeq(weighings', 1, Len(weighings)) = weighings
        /\ weighings'[Len(weighings')].driver_phone = th.phone
        /\ weighings'[Len(weighings')].truck_number = th.temp_data["truck_number"]
        /\ weighings'[Len(weighings')].previous_weight = 0
        /\ weighings'[Len(weighings')].current_weight = th.temp_data["current_weight"]
        /\ weighings'[Len(weighings')].weight_difference = th.temp_data["current_weight"]
        /\ vehicles'[th.temp_data["truck_number"]].last_weight
             = th.temp_data["current_weight"]
        /\ threads'[t].pc = "send_report_to_group"
  /\ (Called(t, "clear_user_state") /\ NoFault /\ th.handler = "handle_confirmation")
     => th.phone \notin DOMAIN user_states'

WeightNumber(text) == ParseFloat(replace(replace(strip(text), ",", <<".">>), " ", <<>>))
\* thread t answers text to the weight prompt; the session it read is the stored one
WeightAnswer(t) ==
  /\ ReportAnswer(t, "AWAITING_WEIGHT")
  /\ get_user_state(threads[t].phone) = threads[t].state_data
\* the answer is refused with reply, and the session is as it was
WeightRefused(t, reply) ==
  /\ threads'[t].pc = "done"
  /\ threads'[t].reply = reply
  /\ user_states' = user_states
  /\ get_user_state(threads[t].phone)' =
       [state |-> "AWAITING_WEIGHT", temp_data |-> threads[t].temp_data]
NegativeWeightRefused(t) ==
  (WeightAnswer(t) /\ WeightNumber(threads[t].text).ok
     /\ WeightNumber(threads[t].text).val < 0)
  => WeightRefused(t, <<"weight_negative">>)
NotANumberRefused(t) ==
  (WeightAnswer(t) /\ ~WeightNumber(threads[t].text).ok)
  => WeightRefused(t, <<"invalid_number">>)

MenuSelection(t) ==
  /\ Handled(t) /\ NoFault
  /\ IsRegistered(threads[t].driver)
  /\ threads[t].state_data = NoRow
\* what the selections other than the statistics do: a flow for the driver's truck
\* is opened and stored in AWAITING_CLIENT, a session in CHANGING_TRUCK or in
\* REGISTRATION_NAME is created, and anything else is answered with the menu and
\* leaves no session
MenuSelectionStep(t) ==
  LET th == threads[t] IN
  /\ (MenuSelection(t) /\ th.text = NEW_REPORT)
     => /\ threads'[t].pc = "set_user_state"
        /\ threads'[t].next_state = "AWAITING_CLIENT"
  /\ (Called(t, "set_user_state") /\ NoFault)
     => /\ threads'[t].pc = "done"
        /\ StoredState(th.phone)' = th.next_state
  /\ (MenuSelection(t) /\ th.text = CHANGE_TRUCK)
     => /\ threads'[t].pc = "done"
        /\ StoredState(th.phone)' = "CHANGING_TRUCK"
  /\ (MenuSelection(t) /\ th.text = RE_REGISTER)
     => threads'[t].pc = "start_registration"
  /\ (Called(t, "start_registration") /\ NoFault)
     => /\ threads'[t].pc = "done"
        /\ StoredState(th.phone)' = "REGISTRATION_NAME"
  /\ (MenuSelection(t)
        /\ th.text \notin {NEW_REPORT, CHANGE_TRUCK, RE_REGISTER, STATISTICS})
     => /\ threads'[t].pc = "done"
        /\ threads'[t].reply = <<"main_menu_registered", th.driver.full_name,
                                 th.driver.truck_number>>
        /\ StoredState(th.phone)' = "none"
\* the statistics selection opens the statistics flow
StatisticsSelectionStep(t) ==
  (MenuSelection(t) /\ threads[t].text = STATISTICS)
  => StoredState(threads[t].phone)' = "AWAITING_STATS_PERIOD"
\* the selections the engine has a branch for are served
MenuSelectionsServed == [][\A t \in Threads : MenuSelectionStep(t)]_vars

\* C12: for a registered user with no session the input is a selection of the
\* main menu: new report creates a session in AWAITING_CLIENT, change truck one in
\* CHANGING_TRUCK, re-register one in REGISTRATION_NAME, statistics one in
\* AWAITING_STATS_PERIOD, and any other input is answered with the menu and creates
\* no session.
C12_MenuSelections ==
  [][\A t \in Threads : MenuSelectionStep(t) /\ StatisticsSelectionStep(t)]_vars

(* ------------------------------ statistics ----------------------------- *)
\* get_statistics called without start_date
NoDate == 0 - 1
\* SUM(current_weight) over the rows S
RECURSIVE SumWeights(_)
SumWeights(S) ==
  IF S = {} THEN 0
  ELSE LET i == CHOOSE j \in S : TRUE
       IN weighings[i].current_weight + SumWeights(S \ {i})
\* the rows the result rows G of a grouping stand for
RECURSIVE SumCounts(_)
SumCounts(G) ==
  IF G = {} THEN 0
  ELSE LET g == CHOOSE h \in G : TRUE IN g.count + SumCounts(G \ {g})
\* Database.get_statistics: the rows with created_at >= start_date (all rows
\* without one), grouped by driver_phone and by truck_number.  A grouping is the
\* set of its result rows (the lists are ordered by cnt DESC); avg is the pair
\* <<total, cnt>> of its quotient; driver_name is a bare column of the GROUP BY
\* query, taken from any row of the group.
get_statistics(start_date) ==
  LET rows == {i \in 1..Len(weighings) :
                 start_date = NoDate \/ weighings[i].created_at >= start_date}
      of_driver(phone) == {i \in rows : weighings[i].driver_phone = phone}
      of_truck(truck) == {i \in rows : weighings[i].truck_number = truck}
  IN [by_driver |->
        { [driver_phone |-> phone,
           driver_names |-> {weighings[i].driver_name : i \in of_driver(phone)},
           count |-> Cardinality(of_driver(phone)),
           total |-> SumWeights(of_driver(phone)),
           avg |-> <<SumWeights(of_driver(phone)), Cardinality(of_driver(phone))>>] :
          phone \in {weighings[i].driver_phone : i \in rows} },
      by_truck |->
        { [truck_number |-> truck,
           count |-> Cardinality(of_truck(truck)),
           total |-> SumWeights(of_truck(truck)),
           avg |-> <<SumWeights(of_truck(truck)), Cardinality(of_truck(truck))>>] :
          truck \in {weighings[i].truck_number : i \in rows} }]

\* C13: on an empty weighings table get_statistics returns a result with the three
\* groupings by driver, by truck and by client, each of them empty.
C13_EmptyStatisticsHasThreeGroupings ==
  weighings = <<>>
  => \A start_date \in {NoDate} \cup 0..MaxTime :
       /\ DOMAIN get_statistics(start_date) = {"by_driver", "by_truck", "by_client"}
       /\ \A grouping \in DOMAIN get_statistics(start_date) :
            get_statistics(start_date)[grouping] = {}
\* the two groupings the store computes are empty on an empty table and count every
\* committed row once
StatisticsCountRows ==
  /\ weighings = <<>>
     => get_statistics(NoDate) = [by_driver |-> {}, by_truck |-> {}]
  /\ \A grouping \in DOMAIN get_statistics(NoDate) :
       SumCounts(get_statistics(NoDate)[grouping]) = Len(weighings)

RegistrationStates == {"REGISTRATION_NAME", "REGISTRATION_PHONE", "REGISTRATION_TRUCK"}
\* a user who is not registered has no session or a registration session, and no
\* row in the weighings table
UnregisteredOnlyRegisters ==
  \A phone \in Phones :
    ~IsRegistered(get_driver(phone))
    => /\ StoredState(phone) \in RegistrationStates \cup {"none"}
       /\ \A i \in 1..Len(weighings) : weighings[i].driver_phone # phone
\* the message of a user who is not registered goes to the handler of the stored
\* registration state
ConsumedByRegistration(t) ==
  /\ threads[t].state_data # NoRow
  /\ threads[t].state_data.state \in RegistrationStates
  /\ threads[t].handler = StateHandlers[threads[t].state_data.state]
\* the message starts the registration: at once when there is no registration
\* session, after the session clear of the re-register command otherwise
StartsRegistration(t) ==
  \/ /\ threads[t].handler = "start_registration"
     /\ threads[t].state_data = NoRow
          \/ threads[t].state_data.state \notin RegistrationStates
     /\ threads'[t].pc = "done"
     /\ NoFault => get_user_state(threads[t].phone)' =
                     [state |-> "REGISTRATION_NAME", temp_data |-> << >>]
  \/ /\ threads[t].handler = "re_register"
     /\ threads'[t].pc = "start_registration"
\* the message is an exit command: the session is deleted
LeavesRegistration(t) ==
  /\ threads[t].handler = "exit"
  /\ Truthy(threads[t].text) /\ is_exit_command(threads[t].text)
  /\ NoFault => StoredState(threads[t].phone)' = "none"
\* the start_registration that follows the re-register command stores the session
RestartStoresSession ==
  \A t \in Threads :
    (Called(t, "start_registration") /\ NoFault)
    => get_user_state(threads[t].phone)' =
         [state |-> "REGISTRATION_NAME", temp_data |-> << >>]

ConfirmationAnswer(t) ==
  /\ Handled(t) /\ NoFault
  /\ IsRegistered(threads[t].driver)
  /\ threads[t].state_data # NoRow
  /\ threads[t].state_data.state = "AWAITING_CONFIRMATION"
\* a negative token deletes the session and commits nothing
NegativeTokenCancels(t) ==
  (ConfirmationAnswer(t) /\ Truthy(threads[t].text)
     /\ lower(threads[t].text) \in ConfirmNoTokens)
  => /\ threads'[t].pc = "done"
     /\ threads'[t].reply = <<"report_cancelled">>
     /\ user_states' = clear_user_state(threads[t].phone)
     /\ threads[t].phone \notin DOMAIN user_states'
     /\ UNCHANGED <<weighings, vehicles, drivers, group>>
\* the user is asked again and nothing is changed
AskedAgain(t) ==
  /\ threads'[t].pc = "done"
  /\ threads'[t].reply = <<"please_confirm">>
  /\ UNCHANGED <<user_states, drivers, vehicles, weighings, group>>
NoTextAskedAgain(t) ==
  (ConfirmationAnswer(t) /\ ~Truthy(threads[t].text)) => AskedAgain(t)
OtherTextAskedAgain(t) ==
  (ConfirmationAnswer(t) /\ Truthy(threads[t].text)
     /\ lower(threads[t].text) \notin ConfirmYesTokens \cup ConfirmNoTokens)
  => AskedAgain(t)

BroadcastsOfFlow(flow) == {i \in 1..Len(group) : group[i].flow = flow}
AboutToBroadcast(flow) ==
  {t \in Threads : /\ threads[t].pc = "send_report_to_group"
                   /\ threads[t].temp_data["flow"] = flow}
\* every broadcast requested or about to be requested has a committed row of its own
BroadcastPerCommittedRow ==
  \A flow \in {group[i].flow : i \in 1..Len(group)}
                \cup {threads[t].temp_data["flow"] :
                        t \in {u \in Threads : threads[u].pc = "send_report_to_group"}} :
    Cardinality(BroadcastsOfFlow(flow)) + Cardinality(AboutToBroadcast(flow))
      <= Cardinality(RowsOfFlow(flow))
\* thread t answers the confirmation prompt with an affirmative token
AffirmativeAnswer(t) ==
  /\ Handled(t) /\ threads[t].handler = "handle_confirmation"
  /\ Truthy(threads[t].text) /\ lower(threads[t].text) \in ConfirmYesTokens
\* the steps of an affirmative confirmation, in their order: the commit, or the
\* failure reply with everything left as it was; then the broadcast; then the
\* session clear and the reply
AffirmativeSteps(t) ==
  LET th == threads[t] IN
  /\ AffirmativeAnswer(t)
     => \/ /\ threads'[t].pc = "send_report_to_group"
           /\ Len(weighings') = Len(weighings) + 1
           /\ weighings'[Len(weighings')].flow = th.temp_data["flow"]
           /\ UNCHANGED <<group, user_states>>
        \/ /\ threads'[t].pc = "done"
           /\ threads'[t].reply = <<"save_failed">>
           /\ faults' = faults + 1
           /\ UNCHANGED <<group, user_states, weighings, vehicles, drivers>>
  /\ Called(t, "send_report_to_group")
     => /\ group' = Append(group, report_text(th.temp_data))
        /\ threads'[t].pc = "clear_user_state"
        /\ UNCHANGED <<user_states, weighings>>
  /\ (Called(t, "clear_user_state") /\ th.handler = "handle_confirmation")
     => /\ BroadcastsOfFlow(th.temp_data["flow"]) # {}
        /\ threads'[t].pc = "done"
        /\ threads'[t].reply = <<"report_saved">>
        /\ NoFault => user_states' = clear_user_state(th.phone)
        /\ UNCHANGED <<group, weighings>>
\* a broadcast is requested by send_report_to_group only
OnlyCommitBroadcasts ==
  group' # group => \E t \in Threads : Called(t, "send_report_to_group")
\* a failed save leaves the session the thread read in the store
FailedSaveKeepsSession ==
  \A t \in Threads :
    (threads[t].pc = "done" /\ threads[t].reply = <<"save_failed">>)
    => StoredState(threads[t].phone) = "AWAITING_CONFIRMATION"

\* C16: on an affirmative confirmation the steps are commit, broadcast, session
\* clear: a broadcast is requested only after save_weighing has succeeded and at
\* most once per committed row; when save_weighing fails no broadcast is requested,
\* the reply is the failure message and the session stays in AWAITING_CONFIRMATION
\* with its scratch record unchanged.
C16_CommitBroadcastClear ==
  /\ [](BroadcastPerCommittedRow /\ FailedSaveKeepsSession)
  /\ [][(\A t \in Threads : AffirmativeSteps(t)) /\ OnlyCommitBroadcasts]_vars
\* the report of one user was committed and broadcast, the save of the other has
\* failed: one row, one broadcast, and the other user is still asked to confirm
C16_Witness ==
  \E t \in Threads :
    /\ threads[t].pc = "done" /\ threads[t].reply = <<"save_failed">>
    /\ StoredState(threads[t].phone) = "AWAITING_CONFIRMATION"
    /\ Len(weighings) = 1 /\ Len(group) = 1
    /\ group[1].flow = weighings[1].flow
    /\ weighings[1].driver_phone # threads[t].phone
    /\ weighings[1].driver_phone \notin DOMAIN user_states

\* the handlers whose only store call is the set_user_state of their transition
TransitionHandlers ==
  {"start_registration", "handle_registration_name", "handle_registration_phone",
   "menu_change_truck", "handle_client_name", "handle_weight_input",
   "handle_photo_input", "handle_photo_received"}
\* this step is a set_user_state of thread t that fails
SetUserStateFails(t) ==
  /\ faults' = faults + 1
  /\ \/ Handled(t) /\ threads[t].handler \in TransitionHandlers
     \/ Called(t, "set_user_state")
     \/ Called(t, "start_registration")
\* the replies that tell the user that something failed and to try again
FailureReplies ==
  {<<"registration_failed">>, <<"truck_update_failed">>, <<"save_failed">>,
   ErrorOccurred}

\* C17: when the set_user_state of a state transition fails, the user gets a
\* failure reply and not the prompt of the next step, and the stored session is the
\* same as before the message.
C17_FailedSessionWriteIsReported ==
  [][\A t \in Threads :
       SetUserStateFails(t)
       => /\ threads'[t].pc = "done"
          /\ threads'[t].reply \in FailureReplies
          /\ user_states' = user_states]_vars
\* a failed set_user_state leaves the stored session as it was (the part of the
\* statement that the store keeps)
FailedSessionWriteKeepsSession ==
  [][\A t \in Threads :
       SetUserStateFails(t)
       => threads'[t].pc = "done" /\ user_states' = user_states]_vars

\* this step is the register_driver or update_driver_truck of thread t, and it fails
TerminalWriteFails(t, handler) ==
  /\ Handled(t) /\ threads[t].handler = handler
  /\ faults' = faults + 1
\* the failure is answered with reply; the session and the tables are as they were
TerminalWriteRefused(t, reply) ==
  /\ threads'[t].pc = "done"
  /\ threads'[t].reply = reply
  /\ UNCHANGED <<user_states, drivers, vehicles, weighings>>
\* after the failure the session is still the one the terminal step was sent in
FailedTerminalWriteKeepsSession ==
  \A t \in Threads :
    /\ (threads[t].pc = "done" /\ threads[t].reply = <<"registration_failed">>)
       => StoredState(threads[t].phone) = "REGISTRATION_TRUCK"
    /\ (threads[t].pc = "done" /\ threads[t].reply = <<"truck_update_failed">>)
       => StoredState(threads[t].phone) = "CHANGING_TRUCK"

\* C18: when register_driver or update_driver_truck fails in the terminal step of
\* the registration or of the truck change, the reply is a failure message, the
\* session stays in REGISTRATION_TRUCK or CHANGING_TRUCK with its scratch record
\* unchanged, and the drivers and vehicles tables are unchanged.
C18_FailedTerminalWriteChangesNothing ==
  /\ []FailedTerminalWriteKeepsSession
  /\ [][\A t \in Threads :
          /\ TerminalWriteFails(t, "handle_registration_truck")
             => TerminalWriteRefused(t, <<"registration_failed">>)
          /\ TerminalWriteFails(t, "handle_change_truck")
             => TerminalWriteRefused(t, <<"truck_update_failed">>)]_vars
\* the registration of P2 has failed at the last step: P2 has no driver row and is
\* still asked for the truck id, with the name and the phone stored
C18_Witness ==
  \E t \in Threads :
    /\ threads[t].pc = "done" /\ threads[t].handler = "handle_registration_truck"
    /\ threads[t].reply = <<"registration_failed">>
    /\ threads[t].phone = P2 /\ P2 \notin DOMAIN drivers
    /\ get_user_state(P2) =
         [state |-> "REGISTRATION_TRUCK",
          temp_data |-> [full_name |-> strip(TXT_ANN),
                         personal_phone |-> only_digits(TXT_PHONE)]]
    /\ DOMAIN vehicles = {AnnRow.truck_number}
\* the truck change of a registered user has failed and the truck is the old one
TruckChangeFailed ==
  \E t \in Threads :
    /\ threads[t].pc = "done" /\ threads[t].reply = <<"truck_update_failed">>
    /\ StoredState(threads[t].phone) = "CHANGING_TRUCK"
    /\ get_driver(threads[t].phone) = AnnRow

\* every request that has returned has a reply
AlwaysAReply ==
  \A t \in Threads : threads[t].pc = "done" => threads[t].reply # <<>>
\* the reply to an internal error does not carry the text of the error
ErrorTextNotShown ==
  \A t \in Threads :
    (threads[t].pc = "done" /\ threads[t].reply # <<>>
       /\ threads[t].reply[1] = "error_occurred")
    => \A i \in 2..Len(threads[t].reply) : threads[t].reply[i] # DatabaseErrorText

\* C19: process_message returns a reply for every input in every state, and when
\* an internal error occurs (a failed read of the store included) the reply is the
\* apology with the menu hint, without the text of the internal error.
C19_ErrorReplyHidesInternals == AlwaysAReply /\ ErrorTextNotShown

\* C20: every row of the drivers table with is_registered = 1 has a full name and
\* a truck id that are not empty, whatever registrations, re-registrations, truck
\* changes, exits and reports have run, also interleaved for one user.
C20_RegisteredDriverHasNameAndTruck ==
  \A phone \in DOMAIN drivers :
    drivers[phone].is_registered = 1
    => /\ drivers[phone].full_name # <<>>
       /\ drivers[phone].truck_number # <<>>
\* P2 has been registered by one request while another request of P2 is in
\* progress, and both registered users have a name and a truck id
C20_Witness ==
  \E t \in Threads : \E u \in Threads \ {t} :
    /\ threads[t].pc = "done" /\ threads[t].handler = "handle_registration_truck"
    /\ threads[t].phone = P2 /\ threads[t].reply[1] = "registration_complete"
    /\ threads[u].phone = P2 /\ threads[u].pc \notin {"idle", "done"}
    /\ IsRegistered(get_driver(P2)) /\ IsRegistered(get_driver(P1))
    /\ get_driver(P2).full_name = strip(TXT_ANN)
    /\ get_driver(P2).truck_number \in {upper(strip(TXT_TRUCK_A)), upper(strip(TXT_TRUCK_B))}


(* ----------------------------- the session row ------------------------- *)
\* what the handler of thread th's branch does with the locals of th
HandlerDecision(th) ==
  CASE th.handler = "start_registration" -> start_registration
    [] th.handler = "handle_registration_name"
         -> handle_registration_name(th.text, th.temp_data)
    [] th.handler = "handle_registration_phone"
         -> handle_registration_phone(th.text, th.temp_data)
    [] th.handler = "handle_registration_truck"
         -> handle_registration_truck(th.text, th.temp_data)
    [] th.handler = "menu_change_truck" -> menu_change_truck
    [] th.handler = "handle_client_name" -> handle_client_name(th.text, th.temp_data)
    [] th.handler = "handle_weight_input" -> handle_weight_input(th.text, th.temp_data)
    [] th.handler = "handle_photo_input" -> handle_photo_input(th.text, th.temp_data)
    [] th.handler = "handle_photo_received"
         -> handle_photo_received(th.temp_data, th.media_data)
    [] th.handler = "handle_confirmation"
         -> handle_confirmation(th.phone, th.text, th.temp_data)
    [] th.handler = "handle_change_truck" -> handle_change_truck(th.text, th.temp_data)
    [] OTHER -> Prompt(<<>>)
\* the set_user_state calls thread t makes in this step (none or one), as the
\* state and the scratch record handed to the store
SessionWrites(t) ==
  LET th == threads[t] IN
  IF Called(t, "set_user_state")
    THEN {SetState(th.next_state, th.temp_data, th.reply)}
  ELSE IF Called(t, "start_registration") THEN {start_registration}
  ELSE IF Handled(t) /\ th.handler \in TransitionHandlers
    THEN {d \in {HandlerDecision(th)} : d.op = "set_user_state"}
  ELSE {}
\* the handlers that call set_user_state without a scratch argument
WritesNoScratch == {start_registration, menu_change_truck}

C22_SessionReplacedOnWrite ==
  [][\A t \in Threads : \A d \in SessionWrites(t) :
       NoFault
       => /\ DOMAIN user_states' = DOMAIN user_states \cup {threads[t].phone}
          /\ DOMAIN user_states'[threads[t].phone].temp_data = DOMAIN d.temp_data
          /\ user_states'[threads[t].phone].state = d.state
          /\ \A q \in DOMAIN user_states \ {threads[t].phone} :
               user_states'[q] = user_states[q]]_vars
\* the first message of a run that began with both users asked to confirm a
\* report is the re-register command; its clear_user_state failed, so that the
\* set_user_state of start_registration wrote over the session with the report,
\* and the scratch record is empty
C22_Witness ==
  \E t \in Threads :
    /\ threads[t].pc = "done" /\ threads[t].handler = "re_register"
    /\ threads[t].reply = start_registration.reply
    /\ received = 1 /\ faults = 1
    /\ DOMAIN drivers = Phones /\ DOMAIN user_states = Phones
    /\ threads[t].phone \in DOMAIN user_states
    /\ user_states[threads[t].phone].state = "REGISTRATION_NAME"
    /\ DOMAIN user_states[threads[t].phone].temp_data = {}


(* ------------------------ the weight shown to confirm ------------------ *)
\* C23: when handle_weight_input accepts a weight, the previous_weight of the
\* scratch record it stores is the truck's last committed weight at that moment
\* (0 without a committed row), and weight_difference is the new weight minus it.
C23_PreviousWeightReadAtWeightEntry ==
  [][\A t \in Threads :
       (/\ Handled(t) /\ threads[t].handler = "handle_weight_input"
        /\ NoFault
        /\ HandlerDecision(threads[t]).op = "set_user_state")
       => LET temp_data == get_user_state(threads[t].phone)'.temp_data
          IN /\ temp_data["previous_weight"] \in get_last_weight(temp_data["truck_number"])
             /\ temp_data["weight_difference"]
                  = temp_data["current_weight"] - temp_data["previous_weight"]]_vars


(* --------------------------- the edges of the session ------------------ *)
\* the changes of a user's session state that the dialogue has: the registration
\* track, the report track, the truck change, a restart of the registration from
\* anywhere and the end of the session from anywhere
SessionEdges ==
  { <<from, "REGISTRATION_NAME">> : from \in States \cup {"none"} }
  \cup { <<from, "none">> : from \in States }
  \cup { <<"REGISTRATION_NAME", "REGISTRATION_PHONE">>,
         <<"REGISTRATION_PHONE", "REGISTRATION_TRUCK">>,
         <<"none", "AWAITING_CLIENT">>, <<"AWAITING_CLIENT", "AWAITING_WEIGHT">>,
         <<"AWAITING_WEIGHT", "AWAITING_PHOTO">>,
         <<"AWAITING_PHOTO", "AWAITING_CONFIRMATION">>,
         <<"none", "CHANGING_TRUCK">> }

\* C24, as stated: the session state of a user changes only along the edges of
\* the dialogue; AWAITING_CONFIRMATION is entered from AWAITING_PHOTO only, and
\* AWAITING_PHOTO from AWAITING_WEIGHT only.
C24_SessionChangesAlongEdges ==
  [][\A q \in Phones :
       StoredState(q)' # StoredState(q)
       => <<StoredState(q), StoredState(q)'>> \in SessionEdges]_vars
\* the session thread t read is no longer the stored one: a request of the same
\* user that ran at the same time has changed it
ReadSessionChanged(t) == threads[t].state_data # get_user_state(threads[t].phone)
\* C24, amended: the same for every change but the one made by a request whose
\* session was changed by another request of the same user after it had read it.
C24_SessionReadChangesAlongEdges ==
  [][\A q \in Phones :
       (/\ StoredState(q)' # StoredState(q)
        /\ \A t \in Threads :
             (threads[t].phone = q /\ threads'[t] # threads[t])
             => ~ReadSessionChanged(t))
       => <<StoredState(q), StoredState(q)'>> \in SessionEdges]_vars
\* two requests of a user have read the AWAITING_PHOTO session; one has
\* stored the skipped photo and the session waits for the confirmation, the other
\* has not acted yet
C24_Witness ==
  \E t \in Threads, u \in Threads :
    /\ t # u /\ threads[u].phone = threads[t].phone
    /\ threads[t].pc = "done" /\ threads[t].handler = "handle_photo_input"
    /\ ~threads[t].rejected
    /\ StoredState(threads[t].phone) = "AWAITING_CONFIRMATION"
    /\ threads[u].pc = "route" /\ threads[u].state_data # NoRow
    /\ threads[u].state_data.state = "AWAITING_PHOTO"


(* ------------------------------- the photo ----------------------------- *)
\* thread t is about to handle a message for a session it read in AWAITING_PHOTO
PhotoAnswer(t) ==
  /\ Handled(t) /\ NoFault
  /\ threads[t].state_data # NoRow
  /\ threads[t].state_data.state = "AWAITING_PHOTO"
  /\ ~GlobalToken(threads[t].text)
\* the replies of handle_photo_received when it has no photo
PhotoErrors == {<<"photo_not_received">>, <<"download_error">>}

PhotoRefused ==
  \E t \in Threads :
    /\ threads[t].pc = "done" /\ threads[t].handler = "handle_photo_received"
    /\ threads[t].rejected /\ threads[t].reply = <<"download_error">>
    /\ StoredState(threads[t].phone) = "AWAITING_PHOTO"


\* thread t is about to handle a text for a session it read in AWAITING_PHOTO
PhotoText(t) ==
  /\ Handled(t) /\ NoFault
  /\ threads[t].state_data # NoRow
  /\ threads[t].state_data.state = "AWAITING_PHOTO"
  /\ ~threads[t].has_media
\* the skip token in any letter case: the session waits for the confirmation, and
\* the scratch record is the one read with photo_received false, an empty
\* photo_path and no photo_url
SkipTokenAdvances(t) ==
  (PhotoText(t) /\ Truthy(threads[t].text) /\ lower(threads[t].text) = SKIP_PHOTO)
  => /\ threads'[t].pc = "done" /\ ~threads'[t].rejected
     /\ StoredState(threads[t].phone)' = "AWAITING_CONFIRMATION"
     /\ get_user_state(threads[t].phone)'.temp_data
          = Put(Put(threads[t].state_data.temp_data, "photo_received", FALSE),
                "photo_path", <<>>)
     /\ "photo_url" \notin DOMAIN get_user_state(threads[t].phone)'.temp_data
\* a text that is not the skip token is answered with the photo prompt
OtherTextAsksForPhoto(t) ==
  (PhotoText(t) /\ lower(threads[t].text) # SKIP_PHOTO)
  => /\ threads'[t].pc = "done" /\ threads'[t].reply = <<"enter_photo">>
     /\ user_states' = user_states
\* the row committed from a session whose photo was skipped has no photo
SkippedPhotoCommitsNoPhoto(t) ==
  (/\ Handled(t) /\ threads[t].handler = "handle_confirmation"
   /\ weighings' # weighings
   /\ Get(threads[t].temp_data, "photo_received", TRUE) = FALSE)
  => weighings'[Len(weighings')].photo_path = <<>>

PhotoAskedAgain ==
  \E t \in Threads :
    /\ threads[t].pc = "done" /\ threads[t].handler = "handle_photo_input"
    /\ threads[t].rejected /\ threads[t].text = TXT_ABC
    /\ StoredState(threads[t].phone) = "AWAITING_PHOTO"


(* --------------------------- the entity tables ------------------------- *)
\* C27: the weighings table only grows: every step leaves each committed row in
\* its place with the values it was committed with, and the ids of the rows
\* increase in the order of the commits.
C27_WeighingsAppendOnly ==
  [][/\ Len(weighings') >= Len(weighings)
     /\ \A i \in 1..Len(weighings) : weighings'[i] = weighings[i]
     /\ \A i \in 1..Len(weighings'), j \in 1..Len(weighings') :
          i < j => weighings'[i].id < weighings'[j].id]_vars
\* a second report of a truck was committed after the first, with another weight:
\* both rows are in the table
C27_Witness ==
  /\ Len(weighings) >= 2
  /\ weighings[1].truck_number = weighings[2].truck_number
  /\ weighings[1].current_weight # weighings[2].current_weight
  /\ weighings[2].previous_weight = weighings[1].current_weight


\* every truck a driver or a committed row names has a row in vehicles, and every
\* committed row is of a registered driver
ReferencesHold ==
  /\ \A q \in DOMAIN drivers : drivers[q].truck_number \in DOMAIN vehicles
  /\ \A i \in 1..Len(weighings) :
       /\ weighings[i].truck_number \in DOMAIN vehicles
       /\ weighings[i].driver_phone \in DOMAIN drivers
       /\ drivers[weighings[i].driver_phone].is_registered = 1
\* the row of a truck is made once: it stays, and only a commit changes it
VehicleRowsKept ==
  \A v \in DOMAIN vehicles :
    /\ v \in DOMAIN vehicles'
    /\ weighings' = weighings => vehicles'[v] = vehicles[v]
\* a truck not known before gets its row in a registration or a truck change, in
\* the step that gives the truck to a driver
VehicleRowsMadeOnFirstUse ==
  \A v \in DOMAIN vehicles' \ DOMAIN vehicles :
    /\ vehicles'[v] = [last_weight |-> 0, last_weighing_date |-> <<>>]
    /\ \E t \in Threads :
         /\ Handled(t)
         /\ threads[t].handler \in {"handle_registration_truck", "handle_change_truck"}
         /\ drivers'[threads[t].phone].truck_number = v

\* C28: in every reachable state the truck of every driver and of every committed
\* row has a vehicle row, and the driver of every committed row is registered; a
\* vehicle row is made the first time a registration or a truck change uses the
\* truck and is not made again afterwards.
C28_ReferencesResolve ==
  /\ ReferencesHold
  /\ [][ReferencesHold' /\ VehicleRowsKept /\ VehicleRowsMadeOnFirstUse]_vars
\* two trucks have a row; the last request was a registration with the truck of
\* the first committed row, and that truck's row still carries a committed weight
C28_Witness ==
  /\ Cardinality(DOMAIN vehicles) = 2
  /\ Len(weighings) >= 1
  /\ vehicles[weighings[1].truck_number].last_weight # 0
  /\ \E q \in DOMAIN drivers : drivers[q].truck_number # weighings[1].truck_number
  /\ \E t \in Threads :
       /\ threads[t].pc = "done"
       /\ threads[t].handler = "handle_registration_truck"
       /\ threads[t].phone \in DOMAIN drivers
       /\ drivers[threads[t].phone].truck_number = weighings[1].truck_number


(* ----------------------------- the truck change ------------------------ *)
\* thread t is about to handle a text that validate_truck accepts, for a
\* registered driver whose session it read in CHANGING_TRUCK
TruckAnswer(t) ==
  /\ Handled(t) /\ NoFault
  /\ IsRegistered(threads[t].driver)
  /\ threads[t].state_data # NoRow
  /\ threads[t].state_data.state = "CHANGING_TRUCK"
  /\ Truthy(threads[t].text) /\ validate_truck(threads[t].text).ok
\* the update of the driver: the truck of the driver's row and nothing else of
\* it, a vehicle row for the truck, and every row of vehicles and weighings that
\* was there left as it was
TruckChanged(t) ==
  LET phone == threads[t].phone
      truck_number == validate_truck(threads[t].text).val
  IN /\ threads[t].handler = "handle_change_truck"
     /\ threads'[t].pc = "clear_user_state"
     /\ DOMAIN drivers' = DOMAIN drivers
     /\ drivers' = [drivers EXCEPT ![phone].truck_number = truck_number]
     /\ DOMAIN vehicles' = DOMAIN vehicles \cup {truck_number}
     /\ \A v \in DOMAIN vehicles : vehicles'[v] = vehicles[v]
     /\ weighings' = weighings
\* the clear_user_state that ends a truck change: the session is deleted, the
\* reply names the new truck and the entity tables stay
TruckChangeEndsSession(t) ==
  (/\ Called(t, "clear_user_state") /\ NoFault
   /\ threads[t].handler = "handle_change_truck")
  => /\ threads[t].phone \notin DOMAIN user_states'
     /\ threads'[t].pc = "done"
     /\ threads'[t].reply
          = <<"truck_updated", drivers[threads[t].phone].truck_number>>
     /\ UNCHANGED <<drivers, vehicles, weighings>>

UndeliveredBroadcastGoesOn(t) ==
  (Called(t, "send_report_to_group") /\ ~NoFault)
  => /\ threads'[t].delivery \in {"failed", "no_group"}
     /\ RowsOfFlow(threads[t].temp_data["flow"]) # {}
     /\ threads'[t].pc = "clear_user_state"
     /\ threads'[t].reply = <<"report_saved">>
     /\ UNCHANGED <<weighings, vehicles, drivers, user_states>>
\* the clear_user_state after a broadcast that was not delivered: the session is
\* deleted, the reply is report_saved, and no row is added or removed
UndeliveredBroadcastEndsSession(t) ==
  (/\ Called(t, "clear_user_state") /\ NoFault
   /\ threads[t].handler = "handle_confirmation"
   /\ threads[t].delivery \in {"failed", "no_group"})
  => /\ user_states' = clear_user_state(threads[t].phone)
     /\ threads'[t].pc = "done"
     /\ threads'[t].reply = <<"report_saved">>
     /\ UNCHANGED <<weighings, vehicles, drivers, group>>

\* C30: when GROUP_ID is not configured or the delivery of the broadcast fails,
\* the affirmative confirmation has committed its row, goes on to delete the
\* session and replies report_saved; the failed broadcast neither takes the row
\* back nor commits it again.
C30_BroadcastFailureIsSilent ==
  [][\A t \in Threads :
       UndeliveredBroadcastGoesOn(t) /\ UndeliveredBroadcastEndsSession(t)]_vars
\* a report was committed, its broadcast failed to be delivered, and the request
\* has ended with report_saved and without a session
C30_Witness ==
  \E t \in Threads :
    /\ threads[t].pc = "done" /\ threads[t].handler = "handle_confirmation"
    /\ threads[t].reply = <<"report_saved">>
    /\ threads[t].phone \notin DOMAIN user_states
    /\ Len(weighings) = 1 /\ Len(group) = 1
    /\ threads[t].delivery = "failed"
    /\ group[1].flow = weighings[1].flow
    /\ weighings[1].driver_phone = threads[t].phone
\* the same without a configured group
NoGroupReportSaved ==
  \E t \in Threads :
    /\ threads[t].pc = "done" /\ threads[t].handler = "handle_confirmation"
    /\ threads[t].reply = <<"report_saved">>
    /\ threads[t].phone \notin DOMAIN user_states
    /\ Len(weighings) = 1 /\ Len(group) = 1
    /\ threads[t].delivery = "no_group"
    /\ weighings[1].driver_phone = threads[t].phone


(* --------------------------- validating again -------------------------- *)
\* a validator that accepts text with the value v accepts v with the value v
AcceptedAgain(validate(_), text) ==
  validate(text).ok => validate(validate(text).val) = Valid(validate(text).val)
\* the texts of the requests in flight and of the refused requests not yet answered
TextsInFlight == { threads[t].text : t \in {u \in Threads : Truthy(threads[u].text)} }
\* every text the server holds passes each validator the same way when the value
\* the validator returned for it is validated again
AcceptedValuesAcceptedAgain ==
  \A text \in TextsInFlight :
    /\ AcceptedAgain(validate_name, text)
    /\ AcceptedAgain(validate_phone, text)
    /\ AcceptedAgain(validate_truck, text)
\* the validator a handler calls on a text
ValidatorResult(handler, text) ==
  CASE handler = "handle_registration_name" -> validate_name(text)
    [] handler = "handle_registration_phone" -> validate_phone(text)
    [] handler \in {"handle_registration_truck", "handle_change_truck"}
         -> validate_truck(text)
ValidatingHandlers ==
  {"handle_registration_name", "handle_registration_phone",
   "handle_registration_truck", "handle_change_truck"}
\* a text a validator refused is refused again, with the message the user got
RefusedTextRefusedAgain ==
  \A t \in Threads :
    (/\ threads[t].pc = "done" /\ threads[t].rejected
     /\ threads[t].handler \in ValidatingHandlers /\ Truthy(threads[t].text))
    => /\ ~ValidatorResult(threads[t].handler, threads[t].text).ok
       /\ threads[t].reply = <<ValidatorResult(threads[t].handler, threads[t].text).val>>
\* the step in which a handler's validator refuses the text writes to no table
ValidationWritesNothing ==
  \A t \in Threads :
    (/\ Handled(t) /\ threads[t].handler \in ValidatingHandlers
     /\ Truthy(threads[t].text)
     /\ ~ValidatorResult(threads[t].handler, threads[t].text).ok)
    => UNCHANGED <<drivers, vehicles, weighings, user_states, group>>

\* C31: for the name, phone and truck validators, a value returned for an accepted
\* input is accepted again and returned as it is; a text validated a second time
\* gets the result it got the first time, and validating changes no table.
C31_ValidationIdempotent ==
  /\ [](AcceptedValuesAcceptedAgain /\ RefusedTextRefusedAgain)
  /\ [][ValidationWritesNothing]_vars
\* a truck typed in lower case with a space in front has been registered in its
\* normalised form, which differs from the text typed and validates to itself
C31_Witness ==
  \E t \in Threads :
    /\ threads[t].pc = "done" /\ threads[t].handler = "handle_registration_truck"
    /\ threads[t].phone \in DOMAIN drivers
    /\ drivers[threads[t].phone].truck_number = validate_truck(TXT_TRUCK_A).val
    /\ validate_truck(TXT_TRUCK_A).val # TXT_TRUCK_A
    /\ validate_truck(validate_truck(TXT_TRUCK_A).val)
         = Valid(validate_truck(TXT_TRUCK_A).val)
    /\ drivers[threads[t].phone].personal_phone = validate_phone(TXT_PHONE).val
    /\ validate_phone(TXT_PHONE).val # TXT_PHONE
\* a phone number with too few digits has been refused
ShortPhoneRefused ==
  \E t \in Threads :
    /\ threads[t].pc = "done" /\ threads[t].rejected
    /\ threads[t].handler = "handle_registration_phone"
    /\ threads[t].text = TXT_PHONE_SHORT

(* ----------------------- the weights of the broadcast ------------------ *)
\* the row thread t committed before this broadcast: on a server that handles one
\* request at a time it is the last row of the table
RowCommittedBy(t) == weighings[Len(weighings)]
\* C32: the previous weight and the signed difference of a report broadcast to
\* the group are the previous_weight and weight_difference of the row committed
\* by the same confirmation, also when another report of the truck was committed
\* between the start of the flow and its confirmation.
C32_BroadcastShowsCommittedWeights ==
  [][\A t \in Threads :
       Called(t, "send_report_to_group")
       => /\ RowCommittedBy(t).flow = threads[t].temp_data["flow"]
          /\ group'[Len(group')].flow = RowCommittedBy(t).flow
          /\ group'[Len(group')].previous_weight = RowCommittedBy(t).previous_weight
          /\ group'[Len(group')].weight_difference
               = RowCommittedBy(t).weight_difference]_vars
\* two drivers of one truck were both asked to confirm a report; both have
\* confirmed and no step has failed: the second row has the weight of the first
\* as its previous weight, and the second broadcast shows the previous weight read
\* when the flow started
StaleBroadcast ==
  /\ faults = 0 /\ Len(weighings) = 2 /\ Len(group) = 2
  /\ weighings[1].flow # weighings[2].flow
  /\ group[2].flow = weighings[2].flow
  /\ weighings[2].previous_weight = weighings[1].current_weight
  /\ group[2].previous_weight = 0
  /\ group[2].weight_difference # weighings[2].weight_difference


(* ------------------------ the fields of the scratch record ------------- *)
\* the fields the scratch record of a session state has to hold
RequiredFields(state) ==
  CASE state = "REGISTRATION_PHONE" -> {"full_name"}
    [] state = "REGISTRATION_TRUCK" -> {"full_name", "personal_phone"}
    [] state = "AWAITING_CLIENT" -> {"truck_number", "previous_weight"}
    [] state = "AWAITING_WEIGHT" -> {"truck_number", "previous_weight", "client_name"}
    [] state = "AWAITING_PHOTO"
         -> {"truck_number", "previous_weight", "client_name", "current_weight",
             "weight_difference"}
    [] state = "AWAITING_CONFIRMATION"
         -> {"truck_number", "previous_weight", "client_name", "current_weight",
             "weight_difference", "photo_received"}
    [] OTHER -> {}
CompletingStep(t, q) ==
  /\ Handled(t) /\ threads[t].phone = q
  /\ threads[t].handler \in {"handle_registration_truck", "handle_change_truck"}
  /\ Truthy(threads[t].text) /\ validate_truck(threads[t].text).ok
\* the row of a registered driver stays, and stays registered
RegisteredStaysRegistered(q) ==
  q \in DOMAIN drivers' /\ IsRegistered(drivers'[q])
\* the row of a registered driver changes in a completing step only: a
\* re-registration that has started leaves it alone while it stores the name and
\* the phone, when it is given up with an exit command and when it is restarted
RowChangesOnCompletionOnly(q) ==
  drivers'[q] # drivers[q] => \E t \in Threads : CompletingStep(t, q)
\* C34: a driver row that is registered stays registered and is never deleted,
\* and a re-registration that is given up (by an exit command, or by never
\* answering the truck prompt) leaves the driver's row as it was before.
C34_RegisteredRowKept ==
  [][\A q \in DOMAIN drivers :
       IsRegistered(drivers[q])
       => RegisteredStaysRegistered(q) /\ RowChangesOnCompletionOnly(q)]_vars
\* a registered driver has restarted the registration and answered the name and
\* the phone prompt: the session waits for the truck and the row is the old one
C34_Witness ==
  \E t \in Threads :
    /\ threads[t].pc = "done" /\ threads[t].handler = "handle_registration_phone"
    /\ ~threads[t].rejected
    /\ threads[t].phone = P1
    /\ StoredState(P1) = "REGISTRATION_TRUCK"
    /\ IsRegistered(drivers[P1]) /\ drivers[P1] = AnnRow
\* a registered driver gives a re-registration up with an exit command
ReRegistrationGivenUp ==
  \E t \in Threads :
    /\ At(t, "exit") /\ IsRegistered(threads[t].driver)
    /\ threads[t].state_data # NoRow
    /\ threads[t].state_data.state \in {"REGISTRATION_PHONE", "REGISTRATION_TRUCK"}


(* ------------------------ commands before handlers --------------------- *)
\* a request that carries an exit or a re-register command takes the branch of
\* the command, the exit branch when the text is an exit command, whatever the
\* session it read; and no handler has refused such a text
CommandsTakeTheirBranch ==
  \A t \in Threads :
    /\ (threads[t].pc \notin {"idle", "done", "get_user_state"}
        /\ GlobalToken(threads[t].text))
       => /\ threads[t].handler \in {"exit", "re_register"}
          /\ threads[t].handler = "exit" <=> is_exit_command(threads[t].text)
    /\ (threads[t].pc = "done" /\ threads[t].rejected)
       => ~GlobalToken(threads[t].text)
\* the steps of a request that carries a command write neither a driver, a
\* vehicle, a weighing nor a broadcast, and the session they leave, if any, is the
\* start of the registration with an empty scratch record
CommandsStoreNothing ==
  \A t \in Threads :
    (/\ threads[t].pc \notin {"idle", "done", "get_user_state"}
     /\ GlobalToken(threads[t].text) /\ threads'[t] # threads[t])
    => /\ UNCHANGED <<drivers, vehicles, weighings, group>>
       /\ \A q \in DOMAIN user_states' :
            (q \notin DOMAIN user_states \/ user_states'[q] # user_states[q])
            => /\ q = threads[t].phone
               /\ user_states'[q] = Session("REGISTRATION_NAME", << >>)

\* C35: the exit and the re-register command are looked at before the handler
\* of the session state, the exit command first: in no state is the text of a
\* command handed to a state handler or stored as a client, a weight or a truck.
C35_CommandsBeforeHandlers ==
  []CommandsTakeTheirBranch /\ [][CommandsStoreNothing]_vars
\* the text 0, which validate_weight accepts, arrives in AWAITING_WEIGHT and takes
\* the exit branch
C35_Witness ==
  \E t \in Threads :
    /\ At(t, "exit") /\ threads[t].text = TXT_ZERO
    /\ validate_weight(threads[t].text).ok
    /\ threads[t].state_data # NoRow
    /\ threads[t].state_data.state = "AWAITING_WEIGHT"
\* the menu word, which validate_truck accepts, arrives in CHANGING_TRUCK, and the
\* re-register command, a valid client name and weight, in AWAITING_CLIENT
CommandsInOtherStates ==
  \E t \in Threads :
    /\ threads[t].pc = "route" /\ threads[t].state_data # NoRow
    /\ \/ /\ threads[t].text = TXT_MENU_UPPER /\ validate_truck(threads[t].text).ok
          /\ threads[t].state_data.state = "CHANGING_TRUCK"
       \/ /\ threads[t].text = RE_REGISTER /\ validate_weight(threads[t].text).ok
          /\ threads[t].state_data.state = "AWAITING_CLIENT"


(* ----------------------------- other users ----------------------------- *)
\* this step belongs to the request thread t handles
StepOf(t) == threads[t].pc \notin {"idle", "done"} /\ threads'[t] # threads[t]
\* the session row and the driver row of every other user are what they were
OthersUntouched(t) ==
  \A q \in Phones \ {threads[t].phone} :
    /\ q \in DOMAIN user_states' <=> q \in DOMAIN user_states
    /\ q \in DOMAIN user_states => user_states'[q] = user_states[q]
    /\ q \in DOMAIN drivers' <=> q \in DOMAIN drivers
    /\ q \in DOMAIN drivers => drivers'[q] = drivers[q]
\* the trucks the request of thread t writes about in this step: the truck of the
\* row it commits and the truck it gives to its driver
TrucksWritten(t) ==
  { weighings'[i].truck_number : i \in (Len(weighings) + 1)..Len(weighings') }
  \cup (IF /\ threads[t].phone \in DOMAIN drivers'
           /\ (threads[t].phone \notin DOMAIN drivers
               \/ drivers'[threads[t].phone] # drivers[threads[t].phone])
          THEN {drivers'[threads[t].phone].truck_number} ELSE {})
\* what the step leaves for others to see: rows of the sender added to the
\* history, and the vehicle rows of the trucks written about
SharedThroughTruckOnly(t) ==
  /\ Len(weighings') >= Len(weighings)
  /\ \A i \in 1..Len(weighings) : weighings'[i] = weighings[i]
  /\ \A i \in (Len(weighings) + 1)..Len(weighings') :
       weighings'[i].driver_phone = threads[t].phone
  /\ \A v \in DOMAIN vehicles :
       v \in DOMAIN vehicles' /\ (vehicles'[v] # vehicles[v] => v \in TrucksWritten(t))
  /\ \A v \in DOMAIN vehicles' \ DOMAIN vehicles : v \in TrucksWritten(t)

\* C36: the steps of a request of one user leave the session row and the driver
\* row of every other user as they were; what they change for others is the
\* vehicle row and the weighing history of the truck the request is about.
C36_OtherUsersUntouched ==
  [][\A t \in Threads :
       StepOf(t) => OthersUntouched(t) /\ SharedThroughTruckOnly(t)]_vars
\* two drivers of one truck are asked to confirm; the report of the first has been
\* committed and its session cleared while a request of the second was in flight:
\* the second still has its session and its row, and the row of their truck has
\* the weight of the first
C36_Witness ==
  \E t \in Threads, u \in Threads :
    /\ threads[t].pc = "done" /\ threads[t].handler = "handle_confirmation"
    /\ threads[t].reply = <<"report_saved">>
    /\ threads[t].phone = P1 /\ P1 \notin DOMAIN user_states
    /\ threads[u].phone = P2 /\ threads[u].pc = "route"
    /\ StoredState(P2) = "AWAITING_CONFIRMATION"
    /\ threads[u].state_data = get_user_state(P2)
    /\ drivers[P2] = AnnRow /\ drivers[P1].truck_number = drivers[P2].truck_number
    /\ Len(weighings) = 1 /\ weighings[1].driver_phone = P1
    /\ vehicles[drivers[P2].truck_number].last_weight = weighings[1].current_weight


(* ------------------------- the progress of a report -------------------- *)
\* the prompts of a report in their order, and the place of a session state in it
ReportTrack ==
  <<"AWAITING_CLIENT", "AWAITING_WEIGHT", "AWAITING_PHOTO", "AWAITING_CONFIRMATION">>
\* the message of thread t is a valid answer to the prompt of the state: a client
\* name of two characters, a number that is not negative, a photo that can be
\* downloaded or the skip token, an affirmative token
ValidInput(t, state) ==
  LET th == threads[t] IN
  CASE state = "AWAITING_CLIENT" -> Truthy(th.text) /\ Len(strip(th.text)) >= 2
    [] state = "AWAITING_WEIGHT" -> Truthy(th.text) /\ validate_weight(th.text).ok
    [] state = "AWAITING_PHOTO"
         -> \/ th.has_media /\ th.media_data = "url_ok"
            \/ Truthy(th.text) /\ lower(th.text) = SKIP_PHOTO
    [] state = "AWAITING_CONFIRMATION"
         -> Truthy(th.text) /\ lower(th.text) \in ConfirmYesTokens
\* thread t is about to handle, without a failure, a valid answer to the i-th
\* prompt of the report of a registered driver
ValidReportAnswer(t, i) ==
  /\ Handled(t) /\ NoFault
  /\ IsRegistered(threads[t].driver)
  /\ threads[t].state_data # NoRow /\ threads[t].state_data.state = ReportTrack[i]
  /\ ValidInput(t, ReportTrack[i])
\* the answer moves the report on: the session is stored in the next state of the
\* track, and after the last prompt the row is committed; the input is not refused
Advances(t, i) ==
  /\ threads'[t].pc # "done" \/ ~threads'[t].rejected
  /\ IF i < Len(ReportTrack)
       THEN /\ StoredState(threads[t].phone)' = ReportTrack[i + 1]
            /\ threads'[t].pc = "done"
       ELSE /\ Len(weighings') = Len(weighings) + 1
            /\ weighings'[Len(weighings')].flow = threads[t].temp_data["flow"]
            /\ threads'[t].pc = "send_report_to_group"
\* after the commit the request goes on to the broadcast and to the clear of the
\* session, which leaves the user without a session
CommitEndsSession(t) ==
  /\ Called(t, "send_report_to_group") => threads'[t].pc = "clear_user_state"
  /\ (Called(t, "clear_user_state") /\ NoFault
        /\ threads[t].handler = "handle_confirmation")
     => /\ threads[t].phone \notin DOMAIN user_states'
        /\ threads'[t].pc = "done" /\ threads'[t].reply = <<"report_saved">>

\* C38, as stated: without failures, every valid input in AWAITING_CLIENT,
\* AWAITING_WEIGHT, AWAITING_PHOTO and AWAITING_CONFIRMATION moves the report one
\* step on and none is answered with the prompt again, so four valid answers lead
\* to the committed row and to the end of the session.
C38_ValidInputsAdvance ==
  [][\A t \in Threads :
       /\ \A i \in 1..Len(ReportTrack) : ValidReportAnswer(t, i) => Advances(t, i)
       /\ CommitEndsSession(t)]_vars
\* C38, amended: the same for valid inputs that are not written as an exit
\* command or as the re-register command.
C38_ValidInputsExceptCommandsAdvance ==
  [][\A t \in Threads :
       /\ \A i \in 1..Len(ReportTrack) :
            (ValidReportAnswer(t, i) /\ ~GlobalToken(threads[t].text))
            => Advances(t, i)
       /\ CommitEndsSession(t)]_vars
\* a report with a photo that began with the new-report selection has been
\* committed after four valid answers, and the session is gone
C38_Witness ==
  \E t \in Threads :
    /\ threads[t].pc = "done" /\ threads[t].handler = "handle_confirmation"
    /\ threads[t].reply = <<"report_saved">>
    /\ threads[t].phone \notin DOMAIN user_states
    /\ received = 5 /\ faults = 0
    /\ Len(weighings) = 1 /\ weighings[1].driver_phone = threads[t].phone
    /\ weighings[1].photo_path = PHOTO_FILE
    /\ weighings[1].client_name = strip(TXT_ACME)
    /\ weighings[1].current_weight = validate_weight(TXT_9000).val

(* ------------------- C39: recovery from a KeyError --------------------- *)
\* the session thread t has read for a registered user names a state that is no
\* member of UserState
ForeignSessionRead(th) ==
  /\ IsRegistered(th.driver)
  /\ th.state_data # NoRow /\ th.state_data.state \notin States
\* the handler of thread t is about to read a required field that its scratch
\* record does not have: handle_confirmation, on an affirmative token, reads
\* truck_number and current_weight without a default
HitsMissingField(t) ==
  /\ At(t, "handle_confirmation") /\ IsRegistered(threads[t].driver)
  /\ Truthy(threads[t].text) /\ lower(threads[t].text) \in ConfirmYesTokens
  /\ \E key \in {"truck_number", "current_weight"} :
       key \notin DOMAIN threads[t].temp_data
\* the branch process_message takes for the message of th when the user has no
\* session: the selections of the main menu ("0", "1", "2", "3"); any other
\* message shows the menu
TopLevelSelection(th) == Route(th.text, th.has_media, th.driver, NoRow)
\* this step is a step of the request of thread t that does not end in a crash
\* or a store failure
StepOfRequest(t) ==
  threads'[t] # threads[t] /\ threads'[t].pc # "idle" /\ NoFault
\* with the foreign session read, the request is about to delete it: in the
\* except branch, or, for the menu selections "0" and "3" that process_message
\* looks at first, in show_main_menu or the re-registration
ForeignSessionToBeDeleted(t) ==
  (threads[t].pc = "get_user_state" /\ threads'[t].pc = "route"
   /\ ForeignSessionRead(threads'[t]))
    => /\ threads'[t].handler \in {"invalid_state", "exit", "re_register"}
       /\ threads'[t].handler # "invalid_state"
            => threads'[t].handler = TopLevelSelection(threads'[t])
\* the step from the except branch deletes the session, writes nothing else and
\* does not answer yet; the request goes on with the same message on the branch of
\* a user without a session
RecoveryStep(t) ==
  ((At(t, "invalid_state") \/ HitsMissingField(t)) /\ StepOfRequest(t))
    => /\ user_states' = clear_user_state(threads[t].phone)
       /\ UNCHANGED <<drivers, vehicles, weighings, group>>
       /\ threads'[t].pc = "route"
       /\ threads'[t].text = threads[t].text
       /\ threads'[t].has_media = threads[t].has_media
       /\ threads'[t].driver = threads[t].driver
       /\ threads'[t].handler = TopLevelSelection(threads[t])
       /\ threads'[t].handler \in {"start_new_report", "menu_change_truck",
                                   "show_main_menu"}
\* the selections "0" and "3" of a user with a foreign session delete it in their
\* first step and write nothing else in it
SelectionDeletesForeignSession(t) ==
  (threads[t].pc = "route" /\ threads[t].handler \in {"exit", "re_register"}
   /\ ForeignSessionRead(threads[t]) /\ StepOfRequest(t))
    => /\ user_states' = clear_user_state(threads[t].phone)
       /\ UNCHANGED <<drivers, vehicles, weighings, group>>

MissingFieldRecovered ==
  \E t \in Threads :
    /\ At(t, "show_main_menu") /\ lower(threads[t].text) \in ConfirmYesTokens
    /\ threads[t].state_data # NoRow
    /\ threads[t].state_data.state = "AWAITING_CONFIRMATION"
    /\ "current_weight" \notin DOMAIN threads[t].temp_data
    /\ "photo_received" \in DOMAIN threads[t].temp_data
    /\ threads[t].phone \notin DOMAIN user_states
    /\ weighings = <<>> /\ faults = 0
\* the exit command of a user with a foreign session has been answered with the
\* main menu, and the session is gone
ForeignSessionGoneOnExit ==
  \E t \in Threads :
    /\ threads[t].pc = "done" /\ threads[t].handler = "exit"
    /\ threads[t].reply[1] = "main_menu_registered"
    /\ threads[t].phone = P1 /\ StoredState(P1) = "none"
    /\ StoredState(P2) = "AWAITING_CONFIRMATION"
    /\ received = 1 /\ faults = 0

(* ----------------- C37: write transactions and the lock ---------------- *)
\* thread t is inside a write operation / holds the write transaction
InCall(t) == calls[t].pc # "idle"
Holds(t) == write_lock = t
\* no thread that holds the write transaction is about to begin one: not at the
\* BEGIN IMMEDIATE of an operation, and not at a statement that begins one
NoNestedBegin ==
  \A t \in Threads :
    Holds(t) => /\ calls[t].pc # "begin"
                /\ calls[t].pc = "execute" => Head(calls[t].todo) # "begin"
\* the lock is held by a thread that is inside an operation and past its BEGIN,
\* never by a thread that has returned: no lock outlives the operation, and the
\* holder never waits for a lock
HolderRuns ==
  write_lock # 0 => calls[write_lock].pc \in {"execute", "commit", "rollback"}
\* no set of requests waits for one another: when threads are inside operations,
\* one of them can take a step that is not the end of a wait for the lock
SomeoneProceeds ==
  (\E t \in Threads : InCall(t))
    => \E t \in Threads :
         /\ InCall(t)
         /\ calls[t].pc = "begin" => write_lock = 0
         /\ ENABLED StoreStep(t)
\* every operation a thread has entered returns, committed or rolled back, and
\* with that the lock it may hold is released
EveryCallEnds ==
  \A t \in Threads :
    InCall(t) ~> (~InCall(t) /\ ~Holds(t)
                  /\ calls[t].result \in {"committed", "rolled_back"})

\* C37: no store operation begins a write transaction while its thread holds one
\* (save_weighing reads the last weight by a plain SELECT inside its
\* transaction); with the threads writing concurrently, every write transaction
\* commits or rolls back in the end, the lock is never left with a thread that has
\* returned, and no set of operations waits for one another.
C37_TransactionsEnd ==
  /\ [](NoNestedBegin /\ HolderRuns /\ SomeoneProceeds)
  /\ EveryCallEnds
\* thread 1 is inside the transaction of save_weighing, at the INSERT that
\* follows the read of the last weight, while thread 2 has entered a write
\* operation and is at its BEGIN IMMEDIATE; one row is committed already
C37_Witness ==
  /\ Holds(1) /\ calls[1].op = "save_weighing" /\ calls[1].pc = "execute"
  /\ Head(calls[1].todo) = "insert"
  /\ calls[2].pc = "begin"
  /\ Len(weighings) = 1 /\ calls[1].previous_weight = weighings[1].current_weight

====
